---------------------------- MODULE Spec2Model ----------------------------
(***************************************************************************)
(* A model of src/stl_metadata.py: the STL text parser (Surface.load), the *)
(* facet ingestion (Surface.add_facet), the Heron area of a Facet and the  *)
(* accessors of a loaded Surface.                                          *)
(*                                                                         *)
(* Python's float is IEEE-754 binary64.  The model computes with the same  *)
(* numbers: a finite float is sgn * man * 2^exp with an odd significand of *)
(* at most Prec bits, and there are the two zeros, the two infinities and  *)
(* nan.  +, - and * are computed exactly and then rounded to nearest, ties *)
(* to even.  x ** 2 and x ** .5 are the C library's pow, which is not      *)
(* always the nearest float: its steps are taken one by one.  float(word)  *)
(* reads the word by Python's grammar and rounds the decimal it writes.    *)
(* TLC's integers are 32 bits wide, so a significand is a natural number   *)
(* kept as a sequence of limbs.                                            *)
(*                                                                         *)
(* The arithmetic is a library of functions: like Python, a function is    *)
(* applied to the values of its arguments, which are worked out first.  A  *)
(* carry is found by looking at the limbs below, and a long number is      *)
(* taken apart by halves, so that no evaluation nests deeply.              *)
(***************************************************************************)
EXTENDS Integers, Sequences, FiniteSets, TLC

(***************************************************************************)
(* Natural numbers of any size: little-endian limbs in base 2^LimbBits,    *)
(* no leading zero limb, zero is the empty sequence.                       *)
(***************************************************************************)
LimbBits == 15

Base == 32768

Limbs == Seq(0..(Base - 1))

Pow2(k) == 2 ^ k

SetMax(S) == CHOOSE x \in S : \A y \in S : y <= x

SetMin(S) == CHOOSE x \in S : \A y \in S : x <= y

\* the limbs of a that are not zero
NonZero(a) == {i \in 1..Len(a) : a[i] # 0}

\* a without its leading zero limbs
BigNorm[a \in Limbs] ==
  IF a = <<>> THEN <<>>
  ELSE IF NonZero(a) = {} THEN <<>>
  ELSE SubSeq(a, 1, SetMax(NonZero(a)))

\* n < Base^3
BigOfNat[n \in Nat] ==
  BigNorm[<<n % Base, (n \div Base) % Base, n \div (Base * Base)>>]

Limb(a, i) == IF i >= 1 /\ i <= Len(a) THEN a[i] ELSE 0

LimbSum(a, b, i) == Limb(a, i) + Limb(b, i)

\* the carry into limb i of a + b: a limb below overflows, and every limb
\* between hands the carry on
Carry(a, b, i) ==
  IF \E j \in 1..(i - 1) :
        /\ LimbSum(a, b, j) >= Base
        /\ \A k \in (j + 1)..(i - 1) : LimbSum(a, b, k) = Base - 1
  THEN 1 ELSE 0

BigAddTo[a \in Limbs, b \in Limbs, n \in Nat] ==
  BigNorm[[i \in 1..(n + 1) |-> (LimbSum(a, b, i) + Carry(a, b, i)) % Base]]

BigAdd[a \in Limbs, b \in Limbs] ==
  BigAddTo[a, b, IF Len(a) > Len(b) THEN Len(a) ELSE Len(b)]

LimbDiff(a, b, i) == Limb(a, i) - Limb(b, i)

\* the borrow from limb i of a - b
Borrow(a, b, i) ==
  IF \E j \in 1..(i - 1) :
        /\ LimbDiff(a, b, j) < 0
        /\ \A k \in (j + 1)..(i - 1) : LimbDiff(a, b, k) = 0
  THEN 1 ELSE 0

\* a - b for a >= b
BigSub[a \in Limbs, b \in Limbs] ==
  IF Len(a) = 0 \/ Len(b) = 0 THEN a
  ELSE BigNorm[[i \in 1..Len(a) |->
                  (LimbDiff(a, b, i) - Borrow(a, b, i) + Base) % Base]]

\* -1, 0, 1 as a < b, a = b, a > b, for as many limbs in both; d is where
\* the limbs differ
BigCmpAt[a \in Limbs, b \in Limbs, d \in SUBSET Nat] ==
  IF d = {} THEN 0 ELSE IF a[SetMax(d)] < b[SetMax(d)] THEN -1 ELSE 1

BigCmp[a \in Limbs, b \in Limbs] ==
  IF Len(a) < Len(b) THEN -1
  ELSE IF Len(a) > Len(b) THEN 1
  ELSE BigCmpAt[a, b, {i \in 1..Len(a) : a[i] # b[i]}]

\* a * d for a limb d: the low halves of the limbs' products and the high ones
BigMulLimb[a \in Limbs, d \in Nat] ==
  IF a = <<>> \/ d = 0 THEN <<>>
  ELSE BigAdd[[i \in 1..Len(a) |-> (a[i] * d) % Base],
              <<0>> \o [i \in 1..Len(a) |-> (a[i] * d) \div Base]]

LimbShift[a \in Limbs, n \in Nat] ==
  IF a = <<>> THEN a ELSE [i \in 1..n |-> 0] \o a

BigMulAt[a \in Limbs, b \in Limbs, j \in Nat] ==
  IF j > Len(b) THEN <<>>
  ELSE BigAdd[BigMulLimb[a, b[j]], LimbShift[BigMulAt[a, b, j + 1], 1]]

BigMul[a \in Limbs, b \in Limbs] ==
  IF a = <<>> \/ b = <<>> THEN <<>> ELSE BigMulAt[a, b, 1]

\* h * p for p = 2^j, j < LimbBits: no limb overflows
BigShlBits[h \in Limbs, p \in Nat] ==
  BigNorm[[i \in 1..(Len(h) + 1) |->
             ((Limb(h, i) * p) % Base) + ((Limb(h, i - 1) * p) \div Base)]]

\* a * 2^k
BigShl[a \in Limbs, k \in Nat] ==
  IF a = <<>> \/ k = 0 THEN a
  ELSE LimbShift[BigShlBits[a, Pow2(k % LimbBits)], k \div LimbBits]

\* floor(h / p) for p = 2^j, j < LimbBits
BigShrBits[h \in Limbs, p \in Nat] ==
  BigNorm[[i \in 1..Len(h) |->
             (h[i] \div p) + (Limb(h, i + 1) % p) * (Base \div p)]]

\* floor(a / 2^k)
BigShr[a \in Limbs, k \in Nat] ==
  IF k = 0 THEN a
  ELSE IF k \div LimbBits >= Len(a) THEN <<>>
  ELSE BigShrBits[SubSeq(a, k \div LimbBits + 1, Len(a)), Pow2(k % LimbBits)]

\* the number of bits of n < Base
NatBits(n) == SetMin({k \in 0..LimbBits : n < Pow2(k)})

BigBits[a \in Limbs] ==
  IF a = <<>> THEN 0 ELSE LimbBits * (Len(a) - 1) + NatBits(a[Len(a)])

\* the number of trailing zero bits of n # 0, n < 2^30, and of a # 0
NatTz(n) == SetMin({k \in 0..29 : n % Pow2(k + 1) # 0})

BigTzAt(a, i) == LimbBits * (i - 1) + NatTz(a[i])

BigTz[a \in Limbs] == BigTzAt(a, SetMin(NonZero(a)))

\* floor(m / 2^k) rounded to the nearest integer to m / 2^k, ties to even:
\* q is the floor, half the bit of m below it, sticky whether a bit below
\* that one is set
RoundedBy[q \in Limbs, half \in BOOLEAN, sticky \in BOOLEAN] ==
  IF half /\ (sticky \/ Limb(q, 1) % 2 = 1) THEN BigAdd[q, <<1>>] ELSE q

BigRoundShr[m \in Limbs, k \in Nat] ==
  RoundedBy[BigShr[m, k], Limb(BigShr[m, k - 1], 1) % 2 = 1, BigTz[m] < k - 1]

\* a divided by a limb d, quotient and remainder: the limbs lo..hi of a,
\* r being what the limbs above left
DivResult == [quot : Limbs, rem : Nat]

DivJoin[low \in DivResult, high \in Limbs] ==
  [quot |-> low.quot \o high, rem |-> low.rem]

BigDivAt[a \in Limbs, d \in Nat, lo \in Nat, hi \in Nat, r \in Nat] ==
  IF lo = hi
  THEN [quot |-> <<(r * Base + a[lo]) \div d>>, rem |-> (r * Base + a[lo]) % d]
  ELSE DivJoin[BigDivAt[a, d, lo, (lo + hi) \div 2,
                        BigDivAt[a, d, ((lo + hi) \div 2) + 1, hi, r].rem],
               BigDivAt[a, d, ((lo + hi) \div 2) + 1, hi, r].quot]

BigDivNorm[qr \in DivResult] == [quot |-> BigNorm[qr.quot], rem |-> qr.rem]

BigDivLimb[a \in Limbs, d \in Nat] ==
  IF a = <<>> THEN [quot |-> <<>>, rem |-> 0]
  ELSE BigDivNorm[BigDivAt[a, d, 1, Len(a), 0]]

(***************************************************************************)
(* Floats.  A finite float is sgn * man * 2^exp with man odd, or zero with *)
(* its sign (man = <<>>, exp = 0), so equal records are the same float;    *)
(* there are two infinities, and nan, which carries the name of the object *)
(* it is (Python tells one nan from another by identity only).  A result   *)
(* is rounded to Prec bits, to fewer when it is subnormal, and is an       *)
(* infinity when it is too large.                                          *)
(***************************************************************************)
Prec == 53

MinNormal == -1022

MaxExp == 1023

Finite == [sgn : {-1, 1}, man : Limbs, exp : Int]

Infinite == [sgn : {-1, 1}, inf : {TRUE}]

NaNs == [nan : Nat \X Nat]

Numbers == Finite \cup Infinite

FloatSet == Numbers \cup NaNs

Dbl(s, m, e) == [sgn |-> s, man |-> m, exp |-> e]

Zero(s) == [sgn |-> s, man |-> <<>>, exp |-> 0]

FZero == Zero(1)

Inf(s) == [sgn |-> s, inf |-> TRUE]

\* the nan an operation makes
NaN == [nan |-> <<0, 0>>]

IsNaN(x) == "nan" \in DOMAIN x

IsInf(x) == "inf" \in DOMAIN x

IsZero(x) == "man" \in DOMAIN x /\ x.man = <<>>

\* the exponent of the leading bit of a finite x # 0
LeadExp(x) == x.exp + BigBits[x.man] - 1

\* the bits a float keeps whose leading bit has the exponent e
Keeps(e) == IF e >= MinNormal THEN Prec ELSE e - MinNormal + Prec

\* s * m * 2^e, the trailing zero bits of m moved to the exponent
FTrimBy[s \in Int, m \in Limbs, e \in Int, tz \in Nat] ==
  [sgn |-> s, man |-> BigShr[m, tz], exp |-> e + tz]

FTrim[s \in Int, m \in Limbs, e \in Int] ==
  IF m = <<>> THEN Zero(s) ELSE FTrimBy[s, m, e, BigTz[m]]

\* s * m * 2^e rounded to nearest, ties to even, for m with k bits too many
FRoundBy[s \in Int, m \in Limbs, e \in Int, k \in Int] ==
  FTrim[s, IF k <= 0 THEN m ELSE BigRoundShr[m, k], IF k <= 0 THEN e ELSE e + k]

\* too large a result is an infinity
FFit[x \in Finite] ==
  IF x.man # <<>> /\ LeadExp(x) > MaxExp THEN Inf(x.sgn) ELSE x

FMake[s \in Int, m \in Limbs, e \in Int] ==
  IF m = <<>> THEN Zero(s)
  ELSE FFit[FRoundBy[s, m, e, BigBits[m] - Keeps(e + BigBits[m] - 1)]]

\* an integer of TLC is less than 2^Prec: no rounding
FOfNat(s, n) == FTrim[s, BigOfNat[n], 0]

FOfInt(n) == IF n < 0 THEN FOfNat(-1, -n) ELSE FOfNat(1, n)

FNeg[a \in FloatSet] == IF IsNaN(a) THEN a ELSE [a EXCEPT !.sgn = -a.sgn]

FAbs[a \in FloatSet] == IF IsNaN(a) THEN a ELSE [a EXCEPT !.sgn = 1]

\* sa * ma + sb * mb in units of 2^e, c comparing ma with mb: the sum of
\* the two when the signs agree, else the larger less the smaller with the
\* sign of the larger; equal numbers of opposite signs cancel to 0.0
FAddSigned[sa \in Int, ma \in Limbs, sb \in Int, mb \in Limbs, e \in Int, c \in Int] ==
  IF sa # sb /\ c = 0 THEN FZero
  ELSE FMake[IF sa = sb \/ c > 0 THEN sa ELSE sb,
             IF sa = sb THEN BigAdd[ma, mb]
             ELSE BigSub[IF c > 0 THEN ma ELSE mb, IF c > 0 THEN mb ELSE ma],
             e]

FAddAligned[sa \in Int, ma \in Limbs, sb \in Int, mb \in Limbs, e \in Int] ==
  FAddSigned[sa, ma, sb, mb, e, BigCmp[ma, mb]]

\* e is the lesser exponent of those that are not zero
FAddAt[a \in Finite, b \in Finite, e \in Int] ==
  FAddAligned[a.sgn, BigShl[a.man, IF a.man = <<>> THEN 0 ELSE a.exp - e],
              b.sgn, BigShl[b.man, IF b.man = <<>> THEN 0 ELSE b.exp - e], e]

\* a + b rounded once, for finite a and b that may have more than Prec
\* bits; a sum of zeros is -0.0 only when both are
FAddFinite[a \in Finite, b \in Finite] ==
  IF a.man = <<>> /\ b.man = <<>> THEN (IF a.sgn = b.sgn THEN a ELSE FZero)
  ELSE FAddAt[a, b, IF a.man = <<>> THEN b.exp
                    ELSE IF b.man = <<>> \/ a.exp < b.exp THEN a.exp
                    ELSE b.exp]

FAdd[a \in FloatSet, b \in FloatSet] ==
  IF IsNaN(a) \/ IsNaN(b) THEN NaN
  ELSE IF IsInf(a) THEN (IF IsInf(b) /\ b.sgn # a.sgn THEN NaN ELSE a)
  ELSE IF IsInf(b) THEN b
  ELSE FAddFinite[a, b]

FSub[a \in FloatSet, b \in FloatSet] == FAdd[a, FNeg[b]]

FMul[a \in FloatSet, b \in FloatSet] ==
  IF IsNaN(a) \/ IsNaN(b) THEN NaN
  ELSE IF IsInf(a) \/ IsInf(b)
  THEN (IF IsZero(a) \/ IsZero(b) THEN NaN ELSE Inf(a.sgn * b.sgn))
  ELSE FMake[a.sgn * b.sgn, BigMul[a.man, b.man], a.exp + b.exp]

\* a * b + c rounded once, for finite a, b and c (the fused multiply-add of
\* the processor)
Fma[a \in Finite, b \in Finite, c \in Finite] ==
  FAddFinite[IF a.man = <<>> \/ b.man = <<>> THEN Zero(a.sgn * b.sgn)
             ELSE Dbl(a.sgn * b.sgn, BigMul[a.man, b.man], a.exp + b.exp), c]

MinExp(a, b) == IF a.exp < b.exp THEN a.exp ELSE b.exp

\* where a number stands: -2 and 2 the infinities, 0 the zeros, else the sign
Rank(a) == IF IsInf(a) THEN 2 * a.sgn ELSE IF a.man = <<>> THEN 0 ELSE a.sgn

\* -1, 0, 1 as a < b, a = b, a > b
FCmp[a \in Numbers, b \in Numbers] ==
  IF Rank(a) # Rank(b) THEN (IF Rank(a) < Rank(b) THEN -1 ELSE 1)
  ELSE IF Rank(a) \in {-2, 0, 2} THEN 0
  ELSE a.sgn * BigCmp[BigShl[a.man, a.exp - MinExp(a, b)],
                      BigShl[b.man, b.exp - MinExp(a, b)]]

\* a < b and a == b of Python: false as soon as one of them is nan
FLt(a, b) == ~IsNaN(a) /\ ~IsNaN(b) /\ FCmp[a, b] < 0

FEq(a, b) == ~IsNaN(a) /\ ~IsNaN(b) /\ FCmp[a, b] = 0

FLe(a, b) == FLt(a, b) \/ FEq(a, b)

(***************************************************************************)
(* pow(x, y) of the C library (glibc 2.36, x86-64, the variant for         *)
(* processors with fused multiply-add) for finite x > 0 and the two        *)
(* exponents the program uses: exp(y * log(x)), the logarithm in two       *)
(* parts.  Every step is the library's, in its order and with its          *)
(* roundings, so the result is the library's to the last bit, which is not *)
(* always the nearest float to the true power.                             *)
(***************************************************************************)
One == Dbl(1, <<1>>, 0)

MinusOne == Dbl(-1, <<1>>, 0)

Two == Dbl(1, <<1>>, 1)

Half == Dbl(1, <<1>>, -1)

\* log(2) in two parts
Ln2 == [hi |-> Dbl(1, <<24391, 4287, 2839>>, -42),
        lo |-> Dbl(1, <<30323, 29304, 15573, 15>>, -93)]

\* the coefficients A[0], ..., A[6] of log(1 + r), A[0] r^2 + ... + A[6] r^8
LogPoly ==
  [i \in 0..6 |->
     << Dbl(-1, <<1>>, -1),
        Dbl(-1, <<10923, 21845, 10922, 5>>, -48),
        Dbl(1, <<3, 0, 0, 64>>, -52),
        Dbl(1, <<10919, 6489, 13107, 102>>, -52),
        Dbl(-1, <<21053, 21801, 10922, 85>>, -52),
        Dbl(-1, <<17897, 13968, 9582, 146>>, -52),
        Dbl(1, <<16323, 5708, 174, 128>>, -52) >>[i + 1]]

\* for each of the 128 intervals of z, whose centre is c:
\* 1/c, log(c) and the rest of log(c)
PowLogTab ==
  << <<Dbl(1, <<181>>, -7), Dbl(-1, <<22329, 8380, 2838>>, -43), Dbl(1, <<28333, 4256, 21921, 1>>, -93)>>,
     <<Dbl(1, <<45>>, -5), Dbl(-1, <<27393, 28527, 2792>>, -43), Dbl(-1, <<1977, 3470, 5281, 7>>, -93)>>,
     <<Dbl(1, <<179>>, -7), Dbl(-1, <<26795, 7621, 2747>>, -43), Dbl(-1, <<20589, 11116, 2707, 155>>, -97)>>,
     <<Dbl(1, <<89>>, -6), Dbl(-1, <<26047, 11105, 2701>>, -43), Dbl(-1, <<26581, 15712, 5010, 180>>, -101)>>,
     <<Dbl(1, <<177>>, -7), Dbl(-1, <<12015, 6117, 2655>>, -43), Dbl(-1, <<18935, 6450, 877, 5>>, -94)>>,
     <<Dbl(1, <<11>>, -3), Dbl(-1, <<4323, 6332, 652>>, -41), Dbl(1, <<8499, 9254, 22575, 39>>, -96)>>,
     <<Dbl(1, <<175>>, -7), Dbl(-1, <<20693, 3105, 2562>>, -43), Dbl(1, <<1437, 28034, 1511, 113>>, -101)>>,
     <<Dbl(1, <<87>>, -6), Dbl(-1, <<11561, 4885, 2515>>, -43), Dbl(1, <<3235, 26725, 5688, 4>>, -92)>>,
     <<Dbl(1, <<173>>, -7), Dbl(-1, <<13617, 8054, 154>>, -39), Dbl(1, <<16457, 21701, 12955, 85>>, -96)>>,
     <<Dbl(1, <<43>>, -5), Dbl(-1, <<22281, 3627, 605>>, -41), Dbl(1, <<25979, 9837, 15759, 22>>, -94)>>,
     <<Dbl(1, <<171>>, -7), Dbl(-1, <<31697, 22148, 2372>>, -43), Dbl(1, <<12351, 28063, 10322, 174>>, -98)>>,
     <<Dbl(1, <<171>>, -7), Dbl(-1, <<31697, 22148, 2372>>, -43), Dbl(1, <<12351, 28063, 10322, 174>>, -98)>>,
     <<Dbl(1, <<85>>, -6), Dbl(-1, <<31215, 20606, 2324>>, -43), Dbl(-1, <<27963, 10323, 13384, 89>>, -97)>>,
     <<Dbl(1, <<169>>, -7), Dbl(-1, <<11571, 9776, 2276>>, -43), Dbl(-1, <<21761, 13427, 12220, 63>>, -96)>>,
     <<Dbl(1, <<21>>, -4), Dbl(-1, <<30069, 22314, 2227>>, -43), Dbl(1, <<10895, 18032, 18417, 15>>, -94)>>,
     <<Dbl(1, <<167>>, -7), Dbl(-1, <<13769, 25342, 2178>>, -43), Dbl(-1, <<11571, 32005, 20873, 90>>, -96)>>,
     <<Dbl(1, <<83>>, -6), Dbl(-1, <<10041, 25756, 1064>>, -42), Dbl(-1, <<391, 32500, 22492, 113>>, -98)>>,
     <<Dbl(1, <<165>>, -7), Dbl(-1, <<19277, 1202, 1040>>, -42), Dbl(-1, <<11647, 15848, 23266, 129>>, -100)>>,
     <<Dbl(1, <<165>>, -7), Dbl(-1, <<19277, 1202, 1040>>, -42), Dbl(-1, <<11647, 15848, 23266, 129>>, -100)>>,
     <<Dbl(1, <<41>>, -5), Dbl(-1, <<13689, 18627, 507>>, -41), Dbl(1, <<15495, 22322, 23722, 234>>, -99)>>,
     <<Dbl(1, <<163>>, -7), Dbl(-1, <<24291, 2780, 990>>, -42), Dbl(1, <<11209, 20035, 9911, 54>>, -95)>>,
     <<Dbl(1, <<81>>, -6), Dbl(-1, <<25263, 24813, 1929>>, -43), Dbl(-1, <<32753, 27271, 19411, 11>>, -94)>>,
     <<Dbl(1, <<161>>, -7), Dbl(-1, <<11583, 24843, 469>>, -41), Dbl(1, <<26651, 30612, 27206, 141>>, -97)>>,
     <<Dbl(1, <<5>>, -2), Dbl(-1, <<15573, 32636, 913>>, -42), Dbl(1, <<24845, 13391, 31055, 46>>, -95)>>,
     <<Dbl(1, <<5>>, -2), Dbl(-1, <<15573, 32636, 913>>, -42), Dbl(1, <<24845, 13391, 31055, 46>>, -95)>>,
     <<Dbl(1, <<159>>, -7), Dbl(-1, <<17113, 20686, 1776>>, -43), Dbl(1, <<14223, 25367, 15040, 202>>, -98)>>,
     <<Dbl(1, <<79>>, -6), Dbl(-1, <<14851, 7754, 431>>, -41), Dbl(1, <<18483, 16333, 7366, 105>>, -103)>>,
     <<Dbl(1, <<157>>, -7), Dbl(-1, <<32299, 30595, 1672>>, -43), Dbl(-1, <<24821, 23622, 6345, 86>>, -96)>>,
     <<Dbl(1, <<157>>, -7), Dbl(-1, <<32299, 30595, 1672>>, -43), Dbl(-1, <<24821, 23622, 6345, 86>>, -96)>>,
     <<Dbl(1, <<39>>, -5), Dbl(-1, <<20293, 19283, 1620>>, -43), Dbl(-1, <<21731, 2435, 18276, 214>>, -97)>>,
     <<Dbl(1, <<155>>, -7), Dbl(-1, <<21005, 29708, 1567>>, -43), Dbl(1, <<31241, 32695, 30461, 221>>, -97)>>,
     <<Dbl(1, <<77>>, -6), Dbl(-1, <<4231, 14480, 757>>, -42), Dbl(1, <<26955, 7316, 28104, 27>>, -94)>>,
     <<Dbl(1, <<77>>, -6), Dbl(-1, <<4231, 14480, 757>>, -42), Dbl(1, <<26955, 7316, 28104, 27>>, -94)>>,
     <<Dbl(1, <<153>>, -7), Dbl(-1, <<29085, 16892, 1461>>, -43), Dbl(-1, <<28979, 9138, 18645, 67>>, -97)>>,
     <<Dbl(1, <<19>>, -4), Dbl(-1, <<2681, 26126, 1407>>, -43), Dbl(-1, <<20537, 15904, 30990, 244>>, -98)>>,
     <<Dbl(1, <<19>>, -4), Dbl(-1, <<2681, 26126, 1407>>, -43), Dbl(-1, <<20537, 15904, 30990, 244>>, -98)>>,
     <<Dbl(1, <<151>>, -7), Dbl(-1, <<14875, 23740, 1353>>, -43), Dbl(-1, <<23439, 8206, 31278, 134>>, -97)>>,
     <<Dbl(1, <<75>>, -6), Dbl(-1, <<22935, 13485, 162>>, -40), Dbl(1, <<24079, 12442, 3265, 46>>, -96)>>,
     <<Dbl(1, <<75>>, -6), Dbl(-1, <<22935, 13485, 162>>, -40), Dbl(1, <<24079, 12442, 3265, 46>>, -96)>>,
     <<Dbl(1, <<149>>, -7), Dbl(-1, <<489, 16260, 1244>>, -43), Dbl(1, <<10781, 19751, 28940, 69>>, -99)>>,
     <<Dbl(1, <<37>>, -5), Dbl(-1, <<511, 10847, 1189>>, -43), Dbl(-1, <<14465, 1500, 18072, 20>>, -94)>>,
     <<Dbl(1, <<147>>, -7), Dbl(-1, <<10619, 29357, 566>>, -42), Dbl(-1, <<20939, 6161, 328, 122>>, -96)>>,
     <<Dbl(1, <<147>>, -7), Dbl(-1, <<10619, 29357, 566>>, -42), Dbl(-1, <<20939, 6161, 328, 122>>, -96)>>,
     <<Dbl(1, <<73>>, -6), Dbl(-1, <<19721, 28623, 1077>>, -43), Dbl(1, <<5885, 17524, 27030, 52>>, -97)>>,
     <<Dbl(1, <<73>>, -6), Dbl(-1, <<19721, 28623, 1077>>, -43), Dbl(1, <<5885, 17524, 27030, 52>>, -97)>>,
     <<Dbl(1, <<145>>, -7), Dbl(-1, <<3807, 18707, 1021>>, -43), Dbl(-1, <<6649, 23715, 27304, 85>>, -96)>>,
     <<Dbl(1, <<9>>, -3), Dbl(-1, <<28203, 19982, 120>>, -40), Dbl(1, <<15, 5496, 13356, 52>>, -95)>>,
     <<Dbl(1, <<9>>, -3), Dbl(-1, <<28203, 19982, 120>>, -40), Dbl(1, <<15, 5496, 13356, 52>>, -95)>>,
     <<Dbl(1, <<143>>, -7), Dbl(-1, <<15727, 29348, 453>>, -42), Dbl(-1, <<24323, 22623, 6318, 116>>, -97)>>,
     <<Dbl(1, <<71>>, -6), Dbl(-1, <<21079, 9939, 850>>, -43), Dbl(1, <<30041, 31254, 7322, 21>>, -94)>>,
     <<Dbl(1, <<71>>, -6), Dbl(-1, <<21079, 9939, 850>>, -43), Dbl(1, <<30041, 31254, 7322, 21>>, -94)>>,
     <<Dbl(1, <<141>>, -7), Dbl(-1, <<12685, 13405, 792>>, -43), Dbl(1, <<27341, 21323, 15892, 19>>, -95)>>,
     <<Dbl(1, <<141>>, -7), Dbl(-1, <<12685, 13405, 792>>, -43), Dbl(1, <<27341, 21323, 15892, 19>>, -95)>>,
     <<Dbl(1, <<35>>, -5), Dbl(-1, <<22315, 3368, 734>>, -43), Dbl(-1, <<14829, 18739, 11887, 90>>, -96)>>,
     <<Dbl(1, <<139>>, -7), Dbl(-1, <<30769, 12403, 675>>, -43), Dbl(1, <<24151, 17292, 2413, 248>>, -98)>>,
     <<Dbl(1, <<139>>, -7), Dbl(-1, <<30769, 12403, 675>>, -43), Dbl(1, <<24151, 17292, 2413, 248>>, -98)>>,
     <<Dbl(1, <<69>>, -6), Dbl(-1, <<12511, 7545, 616>>, -43), Dbl(1, <<5087, 6642, 31595, 226>>, -97)>>,
     <<Dbl(1, <<69>>, -6), Dbl(-1, <<12511, 7545, 616>>, -43), Dbl(1, <<5087, 6642, 31595, 226>>, -97)>>,
     <<Dbl(1, <<137>>, -7), Dbl(-1, <<23879, 5339, 139>>, -41), Dbl(1, <<8969, 27935, 29049, 163>>, -98)>>,
     <<Dbl(1, <<17>>, -4), Dbl(-1, <<35, 10435, 248>>, -42), Dbl(1, <<3729, 1645, 26234, 234>>, -97)>>,
     <<Dbl(1, <<17>>, -4), Dbl(-1, <<35, 10435, 248>>, -42), Dbl(1, <<3729, 1645, 26234, 234>>, -97)>>,
     <<Dbl(1, <<135>>, -7), Dbl(-1, <<25139, 2933, 218>>, -42), Dbl(1, <<7187, 29419, 634, 57>>, -96)>>,
     <<Dbl(1, <<135>>, -7), Dbl(-1, <<25139, 2933, 218>>, -42), Dbl(1, <<7187, 29419, 634, 57>>, -96)>>,
     <<Dbl(1, <<67>>, -6), Dbl(-1, <<22731, 8903, 375>>, -43), Dbl(-1, <<20727, 13554, 30860, 115>>, -96)>>,
     <<Dbl(1, <<67>>, -6), Dbl(-1, <<22731, 8903, 375>>, -43), Dbl(-1, <<20727, 13554, 30860, 115>>, -96)>>,
     <<Dbl(1, <<133>>, -7), Dbl(-1, <<26619, 29757, 313>>, -43), Dbl(1, <<32597, 29990, 1391, 84>>, -99)>>,
     <<Dbl(1, <<133>>, -7), Dbl(-1, <<26619, 29757, 313>>, -43), Dbl(1, <<32597, 29990, 1391, 84>>, -99)>>,
     <<Dbl(1, <<33>>, -5), Dbl(-1, <<25039, 24742, 15>>, -39), Dbl(-1, <<633, 15935, 38, 51>>, -95)>>,
     <<Dbl(1, <<33>>, -5), Dbl(-1, <<25039, 24742, 15>>, -39), Dbl(-1, <<633, 15935, 38, 51>>, -95)>>,
     <<Dbl(1, <<131>>, -7), Dbl(-1, <<4011, 25708, 189>>, -43), Dbl(-1, <<9785, 10229, 13650, 196>>, -97)>>,
     <<Dbl(1, <<65>>, -6), Dbl(-1, <<11327, 24660, 31>>, -41), Dbl(-1, <<27047, 31593, 7804, 62>>, -100)>>,
     <<Dbl(1, <<65>>, -6), Dbl(-1, <<11327, 24660, 31>>, -41), Dbl(-1, <<27047, 31593, 7804, 62>>, -100)>>,
     <<Dbl(1, <<129>>, -7), Dbl(-1, <<9905, 31749, 7>>, -40), Dbl(-1, <<4153, 1773, 25151, 51>>, -96)>>,
     <<Dbl(1, <<129>>, -7), Dbl(-1, <<9905, 31749, 7>>, -40), Dbl(-1, <<4153, 1773, 25151, 51>>, -96)>>,
     <<Dbl(1, <<1>>, 0), Dbl(1, <<>>, 0), Dbl(1, <<>>, 0)>>,
     <<Dbl(1, <<1>>, 0), Dbl(1, <<>>, 0), Dbl(1, <<>>, 0)>>,
     <<Dbl(1, <<127>>, -7), Dbl(1, <<30089, 8234, 64>>, -43), Dbl(-1, <<9597, 26215, 25525, 16>>, -95)>>,
     <<Dbl(1, <<63>>, -6), Dbl(1, <<12583, 345, 129>>, -43), Dbl(-1, <<31721, 1762, 14518, 79>>, -96)>>,
     <<Dbl(1, <<125>>, -7), Dbl(1, <<10441, 4682, 97>>, -42), Dbl(-1, <<781, 6445, 8378, 53>>, -95)>>,
     <<Dbl(1, <<31>>, -5), Dbl(1, <<10141, 2796, 260>>, -43), Dbl(1, <<22355, 14819, 18177, 136>>, -99)>>,
     <<Dbl(1, <<123>>, -7), Dbl(1, <<27159, 26286, 40>>, -40), Dbl(-1, <<16293, 23919, 2873, 28>>, -94)>>,
     <<Dbl(1, <<61>>, -6), Dbl(1, <<21119, 9552, 393>>, -43), Dbl(-1, <<9853, 8372, 26199, 203>>, -98)>>,
     <<Dbl(1, <<121>>, -7), Dbl(1, <<14199, 23454, 460>>, -43), Dbl(-1, <<10247, 4016, 9161, 211>>, -98)>>,
     <<Dbl(1, <<241>>, -8), Dbl(1, <<27, 20878, 494>>, -43), Dbl(-1, <<15227, 8082, 17657, 240>>, -99)>>,
     <<Dbl(1, <<239>>, -8), Dbl(1, <<2611, 29629, 562>>, -43), Dbl(-1, <<7835, 11291, 18805, 169>>, -97)>>,
     <<Dbl(1, <<237>>, -8), Dbl(1, <<16015, 24410, 631>>, -43), Dbl(1, <<20183, 19382, 8570, 230>>, -97)>>,
     <<Dbl(1, <<235>>, -8), Dbl(1, <<27837, 5540, 701>>, -43), Dbl(-1, <<3727, 15453, 21004, 113>>, -96)>>,
     <<Dbl(1, <<117>>, -7), Dbl(1, <<11179, 1688, 368>>, -42), Dbl(1, <<30361, 10653, 15643, 112>>, -100)>>,
     <<Dbl(1, <<29>>, -5), Dbl(1, <<30053, 6898, 403>>, -42), Dbl(1, <<9197, 15037, 8888, 76>>, -96)>>,
     <<Dbl(1, <<115>>, -7), Dbl(1, <<28011, 11400, 877>>, -43), Dbl(-1, <<26853, 22510, 16896, 156>>, -98)>>,
     <<Dbl(1, <<229>>, -8), Dbl(1, <<1777, 17088, 456>>, -42), Dbl(1, <<11475, 3253, 6983, 178>>, -97)>>,
     <<Dbl(1, <<227>>, -8), Dbl(1, <<6225, 29592, 984>>, -43), Dbl(-1, <<12847, 2814, 14349, 7>>, -92)>>,
     <<Dbl(1, <<113>>, -7), Dbl(1, <<20191, 2323, 1021>>, -43), Dbl(-1, <<2813, 8002, 21337, 169>>, -97)>>,
     <<Dbl(1, <<7>>, -3), Dbl(1, <<4415, 30952, 546>>, -42), Dbl(1, <<1017, 20013, 24305, 71>>, -96)>>,
     <<Dbl(1, <<223>>, -8), Dbl(1, <<25151, 17775, 1130>>, -43), Dbl(1, <<9805, 8732, 10126, 57>>, -95)>>,
     <<Dbl(1, <<221>>, -8), Dbl(1, <<6413, 17796, 150>>, -40), Dbl(1, <<13473, 5891, 30131, 156>>, -99)>>,
     <<Dbl(1, <<55>>, -6), Dbl(1, <<345, 16278, 1241>>, -43), Dbl(1, <<29321, 18070, 16032, 177>>, -103)>>,
     <<Dbl(1, <<109>>, -7), Dbl(1, <<13115, 10160, 1316>>, -43), Dbl(1, <<14031, 21823, 16828, 21>>, -94)>>,
     <<Dbl(1, <<217>>, -8), Dbl(1, <<18971, 31932, 1353>>, -43), Dbl(1, <<32199, 19154, 20387, 177>>, -97)>>,
     <<Dbl(1, <<215>>, -8), Dbl(1, <<26817, 27095, 1429>>, -43), Dbl(1, <<1487, 19215, 26565, 25>>, -95)>>,
     <<Dbl(1, <<107>>, -7), Dbl(1, <<14167, 593, 1468>>, -43), Dbl(-1, <<8673, 19256, 17975, 168>>, -97)>>,
     <<Dbl(1, <<213>>, -8), Dbl(1, <<21573, 12720, 1506>>, -43), Dbl(-1, <<17157, 24866, 6209, 227>>, -98)>>,
     <<Dbl(1, <<211>>, -8), Dbl(1, <<27449, 32095, 98>>, -39), Dbl(-1, <<11473, 21970, 30034, 185>>, -99)>>,
     <<Dbl(1, <<105>>, -7), Dbl(1, <<23799, 13493, 101>>, -39), Dbl(1, <<32623, 12609, 18593, 191>>, -99)>>,
     <<Dbl(1, <<13>>, -4), Dbl(1, <<25687, 16083, 850>>, -42), Dbl(-1, <<8553, 8364, 18701, 195>>, -97)>>,
     <<Dbl(1, <<207>>, -8), Dbl(1, <<30141, 15114, 1740>>, -43), Dbl(-1, <<28885, 20140, 27418, 112>>, -98)>>,
     <<Dbl(1, <<103>>, -7), Dbl(1, <<16863, 2163, 890>>, -42), Dbl(-1, <<2395, 22868, 6024, 117>>, -96)>>,
     <<Dbl(1, <<205>>, -8), Dbl(1, <<28417, 32632, 1819>>, -43), Dbl(-1, <<5609, 17814, 22757, 71>>, -99)>>,
     <<Dbl(1, <<203>>, -8), Dbl(1, <<3401, 10166, 1900>>, -43), Dbl(-1, <<12341, 28203, 31915, 215>>, -97)>>,
     <<Dbl(1, <<101>>, -7), Dbl(1, <<32369, 25055, 1940>>, -43), Dbl(1, <<8003, 27656, 1161, 9>>, -99)>>,
     <<Dbl(1, <<201>>, -8), Dbl(1, <<25821, 27483, 123>>, -39), Dbl(-1, <<3601, 19319, 1109, 209>>, -103)>>,
     <<Dbl(1, <<25>>, -5), Dbl(1, <<19259, 9101, 2022>>, -43), Dbl(1, <<19955, 6465, 29435, 13>>, -94)>>,
     <<Dbl(1, <<99>>, -7), Dbl(1, <<2475, 19992, 2104>>, -43), Dbl(1, <<20113, 11738, 29548, 196>>, -100)>>,
     <<Dbl(1, <<197>>, -8), Dbl(1, <<15115, 17110, 536>>, -41), Dbl(1, <<27369, 11385, 25132, 184>>, -97)>>,
     <<Dbl(1, <<49>>, -6), Dbl(1, <<17661, 25504, 2187>>, -43), Dbl(-1, <<31751, 12754, 8462, 56>>, -95)>>,
     <<Dbl(1, <<195>>, -8), Dbl(1, <<30111, 22322, 2229>>, -43), Dbl(1, <<5761, 28490, 27447, 220>>, -97)>>,
     <<Dbl(1, <<97>>, -7), Dbl(1, <<27469, 26200, 2271>>, -43), Dbl(1, <<15799, 8847, 7093, 229>>, -97)>>,
     <<Dbl(1, <<193>>, -8), Dbl(1, <<8663, 4443, 2314>>, -43), Dbl(1, <<23925, 14918, 4029, 106>>, -98)>>,
     <<Dbl(1, <<191>>, -8), Dbl(1, <<19913, 24079, 1199>>, -42), Dbl(1, <<317, 9512, 7418, 53>>, -95)>>,
     <<Dbl(1, <<95>>, -7), Dbl(1, <<3739, 20254, 610>>, -41), Dbl(-1, <<10135, 13512, 28989, 24>>, -94)>>,
     <<Dbl(1, <<189>>, -8), Dbl(1, <<27617, 27886, 1242>>, -42), Dbl(1, <<12025, 27708, 14182, 17>>, -95)>>,
     <<Dbl(1, <<47>>, -6), Dbl(1, <<29491, 19022, 1264>>, -42), Dbl(1, <<12119, 23299, 15188, 48>>, -96)>>,
     <<Dbl(1, <<187>>, -8), Dbl(1, <<31421, 27912, 2572>>, -43), Dbl(1, <<24733, 22817, 4315, 199>>, -99)>>,
     <<Dbl(1, <<93>>, -7), Dbl(1, <<20025, 25456, 2616>>, -43), Dbl(-1, <<22133, 4815, 7992, 249>>, -97)>>,
     <<Dbl(1, <<185>>, -8), Dbl(1, <<24947, 15379, 1330>>, -42), Dbl(-1, <<13865, 3461, 8329, 60>>, -95)>>,
     <<Dbl(1, <<23>>, -5), Dbl(1, <<14789, 10976, 676>>, -41), Dbl(1, <<18265, 713, 31170, 245>>, -97)>>,
     <<Dbl(1, <<183>>, -8), Dbl(1, <<15501, 32490, 1374>>, -42), Dbl(1, <<16623, 23738, 14263, 253>>, -98)>>,
     <<Dbl(1, <<91>>, -7), Dbl(1, <<31435, 23517, 698>>, -41), Dbl(-1, <<6519, 1106, 2858, 52>>, -97)>> >>

\* 128/log(2); 1.5 * 2^52, which added makes an integer of a sum;
\* -log(2)/128 in two parts
ExpData ==
  [invln2N |-> Dbl(1, <<16767, 25899, 10894, 92>>, -44),
   shift |-> Dbl(1, <<3>>, 51),
   negln2hiN |-> Dbl(-1, <<32637, 11842, 44>>, -43),
   negln2loN |-> Dbl(-1, <<7581, 15518, 28469, 115>>, -98)]

\* the coefficients C2, ..., C5 of exp(r) - 1 - r, C2 r^2 + ... + C5 r^5
ExpPoly ==
  [i \in 2..5 |->
     << Dbl(1, <<32189, 32767, 32767, 255>>, -54),
        Dbl(1, <<21775, 10922, 21845, 42>>, -53),
        Dbl(1, <<11153, 7726, 21847, 170>>, -57),
        Dbl(1, <<20503, 20297, 17477, 136>>, -59) >>[i - 1]]

\* for j = 0..127: what 2^(j/128) lacks, and 2^(j/128)
Exp2Tab ==
  << <<Dbl(1, <<>>, 0), Dbl(1, <<1>>, 0)>>,
     <<Dbl(1, <<24503, 6792, 30366, 108>>, -105), Dbl(1, <<13109, 21494, 22774, 128>>, -52)>>,
     <<Dbl(-1, <<23645, 14769, 78, 139>>, -108), Dbl(1, <<97, 31983, 12904, 129>>, -52)>>,
     <<Dbl(-1, <<26321, 8462, 31208, 130>>, -106), Dbl(1, <<32645, 20700, 3159, 130>>, -52)>>,
     <<Dbl(1, <<30227, 27343, 18760, 230>>, -107), Dbl(1, <<24925, 27018, 22960, 32>>, -50)>>,
     <<Dbl(-1, <<18301, 9209, 7424, 111>>, -106), Dbl(1, <<31599, 10717, 24790, 65>>, -51)>>,
     <<Dbl(1, <<18529, 17357, 23865, 135>>, -109), Dbl(1, <<13177, 17949, 17314, 16>>, -49)>>,
     <<Dbl(1, <<21401, 13927, 3985, 133>>, -106), Dbl(1, <<29571, 5517, 30971, 132>>, -52)>>,
     <<Dbl(1, <<31597, 15110, 27289, 188>>, -106), Dbl(1, <<2319, 23027, 21857, 133>>, -52)>>,
     <<Dbl(1, <<31743, 18814, 13594, 61>>, -105), Dbl(1, <<18423, 22244, 12872, 134>>, -52)>>,
     <<Dbl(1, <<7377, 24671, 30965, 245>>, -112), Dbl(1, <<26833, 13011, 18392, 67>>, -51)>>,
     <<Dbl(-1, <<28171, 4896, 3282, 208>>, -109), Dbl(1, <<21275, 24573, 28058, 135>>, -52)>>,
     <<Dbl(-1, <<24199, 10799, 11428, 85>>, -105), Dbl(1, <<23377, 8228, 19463, 136>>, -52)>>,
     <<Dbl(-1, <<27221, 6301, 958, 132>>, -110), Dbl(1, <<3187, 24630, 10941, 34>>, -50)>>,
     <<Dbl(-1, <<31243, 14805, 4679, 71>>, -105), Dbl(1, <<18799, 10986, 10323, 4>>, -47)>>,
     <<Dbl(1, <<21935, 21176, 20367, 134>>, -107), Dbl(1, <<3665, 4427, 27235, 138>>, -52)>>,
     <<Dbl(-1, <<12905, 31401, 3466, 16>>, -104), Dbl(1, <<20859, 30970, 19168, 139>>, -52)>>,
     <<Dbl(-1, <<12861, 11196, 32705, 248>>, -107), Dbl(1, <<18165, 14476, 5618, 70>>, -51)>>,
     <<Dbl(1, <<21439, 32294, 9776, 220>>, -107), Dbl(1, <<19317, 22239, 3439, 141>>, -52)>>,
     <<Dbl(-1, <<30099, 30225, 13112, 91>>, -105), Dbl(1, <<5941, 16898, 15328, 35>>, -50)>>,
     <<Dbl(1, <<20859, 29667, 23966, 6>>, -101), Dbl(1, <<23765, 12648, 10510, 71>>, -51)>>,
     <<Dbl(-1, <<14493, 5900, 7691, 255>>, -107), Dbl(1, <<22813, 17913, 13632, 143>>, -52)>>,
     <<Dbl(1, <<17293, 2381, 15621, 211>>, -107), Dbl(1, <<18027, 2146, 3191, 72>>, -51)>>,
     <<Dbl(1, <<1149, 25032, 26646, 131>>, -107), Dbl(1, <<28235, 4477, 16019, 72>>, -51)>>,
     <<Dbl(1, <<10789, 29140, 3837, 45>>, -104), Dbl(1, <<11335, 7069, 7229, 18>>, -49)>>,
     <<Dbl(1, <<18557, 25832, 30819, 186>>, -107), Dbl(1, <<9791, 8037, 18233, 146>>, -52)>>,
     <<Dbl(1, <<29689, 6175, 3671, 65>>, -106), Dbl(1, <<31965, 19396, 11541, 147>>, -52)>>,
     <<Dbl(-1, <<1071, 16241, 28918, 90>>, -105), Dbl(1, <<25473, 17386, 4991, 148>>, -52)>>,
     <<Dbl(1, <<11057, 23059, 24453, 151>>, -107), Dbl(1, <<24289, 27199, 31351, 148>>, -52)>>,
     <<Dbl(-1, <<24573, 6767, 17206, 116>>, -111), Dbl(1, <<11673, 31259, 11807, 9>>, -48)>>,
     <<Dbl(1, <<685, 14598, 14210, 54>>, -105), Dbl(1, <<779, 19912, 18966, 150>>, -52)>>,
     <<Dbl(1, <<19343, 5021, 21066, 240>>, -109), Dbl(1, <<6059, 10558, 22879, 75>>, -51)>>,
     <<Dbl(1, <<21979, 19888, 6890, 77>>, -106), Dbl(1, <<14101, 5219, 7160, 152>>, -52)>>,
     <<Dbl(1, <<7443, 29014, 16897, 44>>, -105), Dbl(1, <<22577, 30873, 1475, 153>>, -52)>>,
     <<Dbl(1, <<31781, 24019, 14962, 127>>, -106), Dbl(1, <<5887, 25800, 28706, 153>>, -52)>>,
     <<Dbl(-1, <<5825, 7623, 9088, 45>>, -105), Dbl(1, <<8177, 16165, 23317, 154>>, -52)>>,
     <<Dbl(-1, <<27149, 29458, 9590, 18>>, -103), Dbl(1, <<10699, 28277, 18076, 155>>, -52)>>,
     <<Dbl(-1, <<5831, 6993, 4080, 100>>, -105), Dbl(1, <<27699, 27909, 6492, 78>>, -51)>>,
     <<Dbl(-1, <<7017, 16020, 9168, 71>>, -107), Dbl(1, <<8183, 27083, 8044, 157>>, -52)>>,
     <<Dbl(-1, <<6933, 26524, 25702, 200>>, -106), Dbl(1, <<10469, 1575, 3255, 158>>, -52)>>,
     <<Dbl(1, <<19565, 20052, 32034, 172>>, -107), Dbl(1, <<6673, 19474, 15692, 79>>, -51)>>,
     <<Dbl(-1, <<13509, 31272, 9408, 76>>, -105), Dbl(1, <<8199, 598, 31301, 39>>, -50)>>,
     <<Dbl(-1, <<2395, 4143, 7741, 197>>, -110), Dbl(1, <<5909, 8695, 11284, 80>>, -51)>>,
     <<Dbl(-1, <<6683, 20115, 12909, 225>>, -108), Dbl(1, <<10391, 12961, 18391, 161>>, -52)>>,
     <<Dbl(1, <<11281, 16773, 4021, 155>>, -111), Dbl(1, <<2349, 16579, 14369, 162>>, -52)>>,
     <<Dbl(1, <<25839, 30220, 6180, 179>>, -106), Dbl(1, <<87, 23098, 10503, 163>>, -52)>>,
     <<Dbl(1, <<889, 13634, 13191, 246>>, -109), Dbl(1, <<5069, 22200, 8616, 10>>, -48)>>,
     <<Dbl(1, <<28963, 18401, 32739, 9>>, -102), Dbl(1, <<27119, 28887, 18005, 82>>, -51)>>,
     <<Dbl(1, <<11003, 22383, 9267, 11>>, -104), Dbl(1, <<10791, 10860, 32619, 165>>, -52)>>,
     <<Dbl(1, <<24695, 22185, 30455, 152>>, -106), Dbl(1, <<23821, 13307, 29386, 166>>, -52)>>,
     <<Dbl(-1, <<20935, 113, 10344, 126>>, -106), Dbl(1, <<11431, 27962, 26313, 167>>, -52)>>,
     <<Dbl(-1, <<9033, 14631, 31539, 190>>, -107), Dbl(1, <<13089, 8911, 11701, 84>>, -51)>>,
     <<Dbl(-1, <<14431, 31262, 31514, 198>>, -108), Dbl(1, <<10177, 22173, 26710, 84>>, -51)>>,
     <<Dbl(-1, <<11899, 27771, 9357, 88>>, -106), Dbl(1, <<4623, 5307, 18067, 170>>, -52)>>,
     <<Dbl(1, <<27591, 6397, 27146, 76>>, -105), Dbl(1, <<5101, 14005, 24206, 85>>, -51)>>,
     <<Dbl(1, <<6917, 24341, 25308, 220>>, -108), Dbl(1, <<18429, 10543, 13387, 172>>, -52)>>,
     <<Dbl(1, <<21513, 17464, 3975, 131>>, -106), Dbl(1, <<21545, 14992, 11295, 173>>, -52)>>,
     <<Dbl(1, <<25461, 20505, 3850, 83>>, -111), Dbl(1, <<18103, 5298, 9370, 174>>, -52)>>,
     <<Dbl(1, <<16437, 22217, 19352, 161>>, -106), Dbl(1, <<9257, 17771, 29623, 21>>, -49)>>,
     <<Dbl(-1, <<30367, 17202, 4393, 231>>, -107), Dbl(1, <<23561, 29421, 6022, 176>>, -52)>>,
     <<Dbl(-1, <<27061, 20219, 6626, 28>>, -104), Dbl(1, <<21893, 24692, 4602, 177>>, -52)>>,
     <<Dbl(-1, <<29911, 2347, 9969, 81>>, -106), Dbl(1, <<26137, 25420, 18536, 5>>, -47)>>,
     <<Dbl(-1, <<19211, 24085, 26478, 19>>, -103), Dbl(1, <<8741, 1194, 2274, 179>>, -52)>>,
     <<Dbl(1, <<1625, 16447, 4266, 46>>, -108), Dbl(1, <<10611, 10393, 1367, 180>>, -52)>>,
     <<Dbl(-1, <<17477, 28631, 23031, 19>>, -103), Dbl(1, <<15309, 19710, 633, 181>>, -52)>>,
     <<Dbl(-1, <<23745, 1844, 9563, 104>>, -108), Dbl(1, <<23231, 27159, 73, 182>>, -52)>>,
     <<Dbl(-1, <<21751, 14445, 20447, 77>>, -108), Dbl(1, <<6703, 30922, 32456, 182>>, -52)>>,
     <<Dbl(-1, <<2129, 10689, 28917, 134>>, -107), Dbl(1, <<25889, 31912, 32637, 45>>, -50)>>,
     <<Dbl(-1, <<16079, 31924, 32145, 192>>, -108), Dbl(1, <<6109, 29814, 8053, 46>>, -50)>>,
     <<Dbl(-1, <<14299, 22545, 15250, 11>>, -103), Dbl(1, <<24669, 9298, 16282, 46>>, -50)>>,
     <<Dbl(-1, <<29509, 7765, 12900, 88>>, -106), Dbl(1, <<26569, 11396, 32685, 186>>, -52)>>,
     <<Dbl(1, <<21715, 15379, 29485, 132>>, -106), Dbl(1, <<23871, 8124, 421, 188>>, -52)>>,
     <<Dbl(-1, <<9501, 29339, 19314, 217>>, -108), Dbl(1, <<391, 26582, 1105, 189>>, -52)>>,
     <<Dbl(1, <<16491, 10447, 13301, 167>>, -106), Dbl(1, <<24729, 304, 986, 95>>, -51)>>,
     <<Dbl(1, <<27733, 22444, 12166, 175>>, -109), Dbl(1, <<10033, 14031, 17894, 95>>, -51)>>,
     <<Dbl(-1, <<26529, 12211, 17290, 98>>, -106), Dbl(1, <<3337, 21566, 2126, 96>>, -51)>>,
     <<Dbl(-1, <<19917, 30877, 27062, 38>>, -104), Dbl(1, <<19987, 12953, 5670, 193>>, -52)>>,
     <<Dbl(-1, <<32655, 14873, 15624, 65>>, -106), Dbl(1, <<18349, 3143, 7273, 194>>, -52)>>,
     <<Dbl(-1, <<11191, 22642, 10401, 83>>, -105), Dbl(1, <<4845, 13961, 9062, 195>>, -52)>>,
     <<Dbl(1, <<1861, 26459, 8538>>, -97), Dbl(1, <<26265, 13076, 11039, 196>>, -52)>>,
     <<Dbl(1, <<15021, 24824, 14127, 59>>, -105), Dbl(1, <<8411, 1109, 13205, 197>>, -52)>>,
     <<Dbl(-1, <<26623, 14731, 22914, 173>>, -109), Dbl(1, <<20771, 2906, 20274, 49>>, -50)>>,
     <<Dbl(1, <<22481, 11513, 30339, 55>>, -106), Dbl(1, <<15259, 6421, 25437, 99>>, -51)>>,
     <<Dbl(-1, <<15747, 20028, 9342, 152>>, -106), Dbl(1, <<32739, 2961, 10422, 100>>, -51)>>,
     <<Dbl(-1, <<7721, 5848, 9954, 237>>, -110), Dbl(1, <<17893, 24987, 23774, 201>>, -52)>>,
     <<Dbl(-1, <<14681, 31009, 4069, 225>>, -109), Dbl(1, <<21007, 6032, 26899, 202>>, -52)>>,
     <<Dbl(-1, <<31957, 8948, 1670, 73>>, -105), Dbl(1, <<25829, 21499, 24416, 12>>, -48)>>,
     <<Dbl(-1, <<3659, 11981, 10675, 174>>, -107), Dbl(1, <<989, 28874, 16866, 102>>, -51)>>,
     <<Dbl(1, <<20007, 22307, 16368, 141>>, -108), Dbl(1, <<16137, 12372, 28964, 12>>, -48)>>,
     <<Dbl(1, <<29627, 16916, 18647, 238>>, -109), Dbl(1, <<8995, 13254, 8588, 207>>, -52)>>,
     <<Dbl(-1, <<8803, 17604, 5136, 190>>, -107), Dbl(1, <<25957, 30395, 12697, 208>>, -52)>>,
     <<Dbl(1, <<12757, 18372, 29211, 216>>, -107), Dbl(1, <<11571, 22676, 17007, 209>>, -52)>>,
     <<Dbl(-1, <<15125, 10105, 28487, 141>>, -106), Dbl(1, <<9565, 25724, 21518, 210>>, -52)>>,
     <<Dbl(1, <<6377, 7406, 6243, 67>>, -105), Dbl(1, <<5739, 1228, 15567, 26>>, -49)>>,
     <<Dbl(1, <<23219, 23782, 9745, 163>>, -107), Dbl(1, <<32191, 10995, 31149, 212>>, -52)>>,
     <<Dbl(-1, <<10093, 19399, 24525, 37>>, -105), Dbl(1, <<31165, 16339, 1751, 107>>, -51)>>,
     <<Dbl(1, <<13191, 9622, 27102, 224>>, -107), Dbl(1, <<21421, 12981, 8830, 215>>, -52)>>,
     <<Dbl(-1, <<27901, 19153, 30494, 65>>, -105), Dbl(1, <<23347, 10637, 7182, 108>>, -51)>>,
     <<Dbl(-1, <<22365, 22236, 1970, 87>>, -109), Dbl(1, <<5627, 28830, 20106, 217>>, -52)>>,
     <<Dbl(-1, <<7129, 29165, 2624, 2>>, -100), Dbl(1, <<11421, 3557, 13029, 109>>, -51)>>,
     <<Dbl(-1, <<25805, 7254, 22260, 49>>, -107), Dbl(1, <<24135, 26102, 32219, 219>>, -52)>>,
     <<Dbl(-1, <<2613, 22193, 15241, 143>>, -106), Dbl(1, <<805, 12449, 19296, 110>>, -51)>>,
     <<Dbl(1, <<24013, 5311, 32604, 167>>, -108), Dbl(1, <<24809, 4171, 6205, 111>>, -51)>>,
     <<Dbl(-1, <<9771, 32073, 15867, 35>>, -104), Dbl(1, <<7689, 14254, 19209, 223>>, -52)>>,
     <<Dbl(1, <<3251, 24926, 15032, 155>>, -108), Dbl(1, <<21671, 28354, 6555, 56>>, -50)>>,
     <<Dbl(1, <<32613, 11855, 25394, 61>>, -105), Dbl(1, <<26685, 24575, 342, 113>>, -51)>>,
     <<Dbl(1, <<22123, 26756, 24719, 41>>, -105), Dbl(1, <<20811, 23727, 8132, 227>>, -52)>>,
     <<Dbl(1, <<6759, 28828, 14012, 158>>, -109), Dbl(1, <<26549, 10253, 15798, 228>>, -52)>>,
     <<Dbl(1, <<17197, 6948, 13718, 23>>, -106), Dbl(1, <<4201, 14815, 23683, 229>>, -52)>>,
     <<Dbl(-1, <<23273, 972, 5169, 66>>, -106), Dbl(1, <<25085, 21853, 15894, 115>>, -51)>>,
     <<Dbl(-1, <<31343, 32767, 13684, 253>>, -107), Dbl(1, <<25183, 9475, 1837, 58>>, -50)>>,
     <<Dbl(-1, <<10569, 28907, 14008, 128>>, -106), Dbl(1, <<17657, 2061, 24334, 116>>, -51)>>,
     <<Dbl(1, <<1959, 19578, 3606, 165>>, -108), Dbl(1, <<9351, 14839, 24675, 234>>, -52)>>,
     <<Dbl(-1, <<8719, 16512, 18040, 148>>, -107), Dbl(1, <<12403, 17842, 16497, 29>>, -49)>>,
     <<Dbl(1, <<25771, 27360, 23120, 60>>, -105), Dbl(1, <<12933, 1974, 10136, 237>>, -52)>>,
     <<Dbl(1, <<27467, 22530, 26982, 161>>, -107), Dbl(1, <<3491, 7984, 14948, 7>>, -47)>>,
     <<Dbl(-1, <<15903, 3944, 21636, 150>>, -107), Dbl(1, <<7007, 26359, 29276, 239>>, -52)>>,
     <<Dbl(-1, <<3529, 30350, 10980, 201>>, -107), Dbl(1, <<8489, 10731, 6424, 241>>, -52)>>,
     <<Dbl(1, <<2259, 16501, 22545, 165>>, -108), Dbl(1, <<8187, 26507, 8285, 121>>, -51)>>,
     <<Dbl(1, <<29297, 9018, 6065, 158>>, -107), Dbl(1, <<19587, 30606, 26951, 243>>, -52)>>,
     <<Dbl(-1, <<14623, 20986, 32196, 15>>, -103), Dbl(1, <<18541, 8868, 18783, 122>>, -51)>>,
     <<Dbl(-1, <<29821, 17478, 14947, 237>>, -107), Dbl(1, <<26609, 23324, 15648, 246>>, -52)>>,
     <<Dbl(1, <<17409, 4202, 25054, 30>>, -104), Dbl(1, <<23079, 23746, 26735, 247>>, -52)>>,
     <<Dbl(1, <<30105, 17321, 22313, 80>>, -106), Dbl(1, <<14999, 28375, 5292, 249>>, -52)>>,
     <<Dbl(1, <<17143, 12753, 18770, 105>>, -106), Dbl(1, <<14613, 13019, 29959, 3>>, -46)>>,
     <<Dbl(-1, <<25581, 18551, 24299, 241>>, -107), Dbl(1, <<12165, 22222, 31741, 62>>, -50)>>,
     <<Dbl(1, <<19869, 6947, 9453, 188>>, -108), Dbl(1, <<21019, 24679, 21472, 31>>, -49)>>,
     <<Dbl(1, <<19593, 705, 5893, 152>>, -110), Dbl(1, <<29169, 22302, 20232, 254>>, -52)>> >>

\* x = 2^k * z with z in [OFF, 2 * OFF), OFF = 0x1.69555p-1: the significand
\* of x in Prec bits, less the fraction bits of OFF
OffFrac == BigShl[BigOfNat[431445], 32]

LogW[x \in Finite] == BigSub[BigShl[x.man, Prec - BigBits[x.man]], OffFrac]

LogK[x \in Finite, w \in Limbs] ==
  LeadExp(x) + (IF BigBits[w] = Prec THEN 1 ELSE 0)

\* the interval of z
LogI[w \in Limbs] == Limb(BigShr[w, 45], 1) % 128

\* log(x) = hi + lo
LogF[hi \in Finite, lo \in Finite, y \in Finite] ==
  [hi |-> y, lo |-> FAdd[FSub[hi, y], lo]]

LogE[hi \in Finite, lo \in Finite] == LogF[hi, lo, FAdd[hi, lo]]

\* A[1] + r A[2] + ar2 (A[3] + r A[4] + ar2 (A[5] + r A[6]))
LogP[r \in Finite, ar2 \in Finite] ==
  Fma[ar2, Fma[Fma[r, LogPoly[6], LogPoly[5]], ar2,
               Fma[r, LogPoly[4], LogPoly[3]]],
      Fma[r, LogPoly[2], LogPoly[1]]]

LogD[r \in Finite, ar2 \in Finite, ar3 \in Finite, lo123 \in Finite, hi \in Finite, t2 \in Finite] ==
  LogE[hi, Fma[ar3, LogP[r, ar2], FAdd[lo123, FAdd[FSub[t2, hi], ar2]]]]

LogC[r \in Finite, lo1 \in Finite, ar \in Finite, t2 \in Finite, ar2 \in Finite, lo2 \in Finite] ==
  LogD[r, ar2, FMul[r, ar2], FAdd[FAdd[lo1, lo2], Fma[ar, r, FNeg[ar2]]],
       FAdd[t2, ar2], t2]

LogB[r \in Finite, t1 \in Finite, lo1 \in Finite, ar \in Finite, t2 \in Finite] ==
  LogC[r, lo1, ar, t2, FMul[r, ar], FAdd[FSub[t1, t2], r]]

LogA[r \in Finite, t1 \in Finite, lo1 \in Finite] ==
  LogB[r, t1, lo1, FMul[LogPoly[0], r], FAdd[t1, r]]

\* r = z / c - 1, t1 = k log(2) + log(c), lo1 what t1 lacks
LogIn[z \in Finite, kd \in Finite, T \in Seq(Finite)] ==
  LogA[Fma[z, T[1], MinusOne], Fma[kd, Ln2.hi, T[2]],
       Fma[kd, Ln2.lo, T[3]]]

LogAt[x \in Finite, k \in Int, i \in Nat] ==
  LogIn[[x EXCEPT !.exp = @ - k], FOfInt(k), PowLogTab[i + 1]]

log_inline[x \in Finite] == LogAt[x, LogK[x, LogW[x]], LogI[LogW[x]]]

\* the integer a float is, when it is a small one
ToInt(x) ==
  IF x.man = <<>> THEN 0
  ELSE x.sgn * (Limb(x.man, 1) + Base * Limb(x.man, 2)) * Pow2(x.exp)

\* 2^1009 and 2^-1022
Huge == Dbl(1, <<1>>, 1009)

Tiny == Dbl(1, <<1>>, -1022)

\* the result is near the least normal float: y = scale + scale * tmp is
\* computed scaled by 2^1022, rounded as the subnormal result will be, and
\* scaled back
SpecialFix[lo \in Finite, hi \in Finite, y \in Finite] ==
  FSub[FAdd[FAdd[FAdd[FSub[One, hi], y], lo], hi], One]

SpecialSum[scale \in Finite, p \in Finite, y \in Finite] ==
  IF FCmp[FAbs[y], One] < 0
  THEN FMul[SpecialFix[FAdd[FSub[scale, y], p], FAdd[One, y], y], Tiny]
  ELSE FMul[y, Tiny]

SpecialLow[scale \in Finite, p \in Finite] ==
  SpecialSum[scale, p, FAdd[scale, p]]

\* scale * 2^q
Scaled[scale \in Finite, q \in Int] == [scale EXCEPT !.exp = @ + q]

\* scale + scale * tmp with scale = 2^(q + j/128); when the result may be
\* too large or too small for a float the scale is brought into range first
ExpS[tmp \in Finite, scale \in Finite, q \in Int, special \in BOOLEAN] ==
  IF ~special THEN Fma[tmp, Scaled[scale, q], Scaled[scale, q]]
  ELSE IF q >= 0
  THEN FMul[Fma[Scaled[scale, q - 1009], tmp, Scaled[scale, q - 1009]], Huge]
  ELSE SpecialLow[Scaled[scale, q + 1022], FMul[tmp, Scaled[scale, q + 1022]]]

\* tmp = tail + r + r2 (C2 + r C3) + r2 r2 (C4 + r C5)
ExpT[r \in Finite, r2 \in Finite, T \in Seq(Finite), q \in Int, special \in BOOLEAN] ==
  ExpS[Fma[Fma[r, ExpPoly[5], ExpPoly[4]], FMul[r2, r2],
           Fma[Fma[r, ExpPoly[3], ExpPoly[2]], r2, FAdd[T[1], r]]],
       T[2], q, special]

\* k = 128 q + j
ExpR[r \in Finite, k \in Int, special \in BOOLEAN] ==
  ExpT[r, FMul[r, r], Exp2Tab[(k % 128) + 1], (k - (k % 128)) \div 128, special]

\* x = k log(2)/128 + r, kd the integer k
ExpK[x \in Finite, xtail \in Finite, kd \in Finite, special \in BOOLEAN] ==
  ExpR[FAdd[Fma[kd, ExpData.negln2loN, Fma[kd, ExpData.negln2hiN, x]], xtail],
       ToInt(kd), special]

\* exp(x + xtail): 1 + x for |x| < 2^-54, an infinity or zero for
\* |x| >= 1024, with care for |x| >= 512
exp_inline[x \in Finite, xtail \in Finite] ==
  IF x.man = <<>> THEN FAdd[One, x]
  ELSE IF LeadExp(x) < -54 THEN FAdd[One, x]
  ELSE IF LeadExp(x) >= 10 THEN (IF x.sgn > 0 THEN Inf(1) ELSE FZero)
  ELSE ExpK[x, xtail, FSub[Fma[x, ExpData.invln2N, ExpData.shift], ExpData.shift],
            LeadExp(x) >= 9]

\* ehi = y * hi, elo = y * lo + (y * hi - ehi)
PowExp[y \in Finite, hi \in Finite, lo \in Finite, ehi \in Finite] ==
  exp_inline[ehi, Fma[y, lo, Fma[hi, y, FNeg[ehi]]]]

HiLo == [hi : Finite, lo : Finite]

PowOf[y \in Finite, l \in HiLo] ==
  PowExp[y, l.hi, l.lo, FMul[y, l.hi]]

\* pow(x, y) for finite x > 0 and y one of 2 and .5
pow[x \in Finite, y \in {Half, Two}] == PowOf[y, log_inline[x]]

(***************************************************************************)
(* x ** y of Python, for a float x and y one of 2 and .5.  A power that is *)
(* too large for a float is an OverflowError, which is a value here; a     *)
(* negative number to the power .5 is a complex number [re, im].           *)
(***************************************************************************)
OverflowError == [raised |-> "OverflowError"]

IsRaised(x) == "raised" \in DOMAIN x

IsComplex(x) == "im" \in DOMAIN x

Re(x) == IF IsComplex(x) THEN x.re ELSE x

Im(x) == IF IsComplex(x) THEN x.im ELSE FZero

\* x + y of Python: float + float, or complex as soon as one of them is
NumAdd(x, y) ==
  IF IsComplex(x) \/ IsComplex(y)
  THEN [re |-> FAdd[Re(x), Re(y)], im |-> FAdd[Im(x), Im(y)]]
  ELSE FAdd[x, y]

\* what pow returns, as Python takes it
Checked[v \in FloatSet] == IF IsInf(v) THEN OverflowError ELSE v

\* float_pow: nan, the infinities, the zeros and 1.0 are answered without
\* the library
Square[x \in FloatSet] ==
  IF IsNaN(x) THEN NaN
  ELSE IF IsInf(x) THEN Inf(1)
  ELSE IF x.man = <<>> THEN FZero
  ELSE IF FAbs[x] = One THEN One
  ELSE Checked[pow[FAbs[x], Two]]

\* cos(atan2(0.0, -1.0) * .5) of the C library: 0x1.1a62633145c07p-54
CosHalfPi == Dbl(1, <<23559, 26152, 6296, 141>>, -106)

\* the complex power len * (cos(phase) + sin(phase) j), len = pow(|x|, .5),
\* phase = atan2(0.0, x) * .5, sin(phase) = 1.0
ComplexRoot[len \in FloatSet] == [re |-> FMul[len, CosHalfPi], im |-> len]

\* a negative x goes to the complex power, whose length is the library's
\* pow(|x|, .5) all the same
Root[x \in Finite, len \in FloatSet] ==
  IF x.sgn < 0 THEN ComplexRoot[len] ELSE Checked[len]

PowHalf[x \in FloatSet] ==
  IF IsNaN(x) THEN NaN
  ELSE IF IsInf(x) THEN Inf(1)
  ELSE IF x.man = <<>> THEN FZero
  ELSE IF x = One THEN One
  ELSE Root[x, pow[FAbs[x], Half]]

(***************************************************************************)
(* Text.  A line is the list of its whitespace-separated words (what       *)
(* l.split() returns), a word is a string.  float() is Python's builtin,   *)
(* for words of ASCII characters: an optional sign, then inf, infinity or  *)
(* nan in any case, or digits with an optional point and an optional       *)
(* exponent, single underscores allowed between digits; the value is the   *)
(* float nearest to the decimal number, ties to even.  What float() does   *)
(* not accept raises ValueError, which is a value here.                    *)
(***************************************************************************)
ValueError == [raised |-> "ValueError"]

DigitOf ==
  ("0" :> 0) @@ ("1" :> 1) @@ ("2" :> 2) @@ ("3" :> 3) @@ ("4" :> 4) @@
  ("5" :> 5) @@ ("6" :> 6) @@ ("7" :> 7) @@ ("8" :> 8) @@ ("9" :> 9)

IsDigit(c) == c \in DOMAIN DigitOf

\* the characters of a word
Chars(w) == [i \in 1..Len(w) |-> SubSeq(w, i, i)]

CharSeqs == Seq(STRING)

\* an underscore stands between two digits
UnderscoresOk(cs) ==
  \A i \in 1..Len(cs) :
    cs[i] = "_" =>
      /\ i > 1 /\ IsDigit(cs[i - 1])
      /\ i < Len(cs) /\ IsDigit(cs[i + 1])

IsNoUnderscore(c) == c # "_"

LowerOf ==
  ("I" :> "i") @@ ("N" :> "n") @@ ("F" :> "f") @@ ("T" :> "t") @@
  ("Y" :> "y") @@ ("A" :> "a")

Lower(c) == IF c \in DOMAIN LowerOf THEN LowerOf[c] ELSE c

Lowered(b) == [i \in 1..Len(b) |-> Lower(b[i])]

\* where the digits that begin at the i-th character end
RunEnd(b, i) == SetMin({j \in i..(Len(b) + 1) : j > Len(b) \/ ~IsDigit(b[j])})

DotAt(b, p) == p <= Len(b) /\ b[p] = "."

\* the end of the digits before the point, and of those after it
IntEnd(b) == RunEnd(b, 1)

FracEnd(b) == IF DotAt(b, IntEnd(b)) THEN RunEnd(b, IntEnd(b) + 1) ELSE IntEnd(b)

\* the digits of the number without its point, and how many follow the point
Mantissa(b) ==
  SubSeq(b, 1, IntEnd(b) - 1) \o SubSeq(b, IntEnd(b) + 1, FracEnd(b) - 1)

FracLen(b) == IF DotAt(b, IntEnd(b)) THEN FracEnd(b) - IntEnd(b) - 1 ELSE 0

ExpAt(b, p) == p <= Len(b) /\ b[p] \in {"e", "E"}

SignAt(b, p) == p <= Len(b) /\ b[p] \in {"+", "-"}

\* where the digits of the exponent begin, the e being the p-th character
ExpFrom(b, p) == IF SignAt(b, p + 1) THEN p + 2 ELSE p + 1

\* digits [. digits] [e [sign] digits] with a digit before the exponent
IsNumeral(b) ==
  /\ Mantissa(b) # <<>>
  /\ \/ FracEnd(b) > Len(b)
     \/ /\ ExpAt(b, FracEnd(b))
        /\ ExpFrom(b, FracEnd(b)) <= Len(b)
        /\ RunEnd(b, ExpFrom(b, FracEnd(b))) > Len(b)

\* digits without the leading zeros
Significant(ds) ==
  IF \A i \in 1..Len(ds) : ds[i] = "0" THEN <<>>
  ELSE SubSeq(ds, SetMin({i \in 1..Len(ds) : ds[i] # "0"}), Len(ds))

\* an exponent of more digits than this is as good as this
MaxExpDigits == 6

SmallNat[ds \in CharSeqs, i \in Nat] ==
  IF i = 0 THEN 0 ELSE 10 * SmallNat[ds, i - 1] + DigitOf[ds[i]]

Capped(ds) ==
  IF Len(ds) > MaxExpDigits THEN Pow2(20) ELSE SmallNat[ds, Len(ds)]

\* the exponent written in b, 0 when none is
ExpOf(b) ==
  IF FracEnd(b) > Len(b) THEN 0
  ELSE (IF b[FracEnd(b) + 1] = "-" THEN -1 ELSE 1)
       * Capped(Significant(SubSeq(b, ExpFrom(b, FracEnd(b)), Len(b))))

\* a * 10^n
TimesPow10[a \in Limbs, n \in Nat] ==
  IF n = 0 THEN a
  ELSE IF n < 4 THEN TimesPow10[BigMulLimb[a, 10], n - 1]
  ELSE IF n < 8 THEN TimesPow10[BigMulLimb[a, 10000], n - 4]
  ELSE TimesPow10[TimesPow10[a, 4 * (n \div 8)], n - 4 * (n \div 8)]

\* the natural number of the digits lo..hi of ds
DecOf[ds \in CharSeqs, lo \in Nat, hi \in Nat] ==
  IF lo > hi THEN <<>>
  ELSE IF lo = hi THEN BigOfNat[DigitOf[ds[lo]]]
  ELSE BigAdd[TimesPow10[DecOf[ds, lo, (lo + hi) \div 2], hi - (lo + hi) \div 2],
              DecOf[ds, ((lo + hi) \div 2) + 1, hi]]

\* floor(a / 10^n), and whether anything was left over
QuotSticky == [quot : Limbs, sticky : BOOLEAN]

Inexact[qr \in DivResult, sticky \in BOOLEAN] ==
  [quot |-> qr.quot, sticky |-> sticky \/ qr.rem # 0]

OverPow10[st \in QuotSticky, n \in Nat] ==
  IF n = 0 THEN st
  ELSE IF n < 4 THEN OverPow10[Inexact[BigDivLimb[st.quot, 10], st.sticky], n - 1]
  ELSE IF n < 8
  THEN OverPow10[Inexact[BigDivLimb[st.quot, 10000], st.sticky], n - 4]
  ELSE OverPow10[OverPow10[st, 4 * (n \div 8)], n - 4 * (n \div 8)]

\* the quotient with one more bit, which says that it was not exact
WithSticky[st \in QuotSticky] ==
  BigAdd[BigShl[st.quot, 1], IF st.sticky THEN <<1>> ELSE <<>>]

\* no less than the number of bits of 10^n
Pow10Bits(n) == (10 * n) \div 3 + 1

\* the shift that leaves the quotient d * 2^k / 10^n bits enough to round
QuotShift(d, n) ==
  IF Pow10Bits(n) + Prec + 3 > BigBits[d]
  THEN Pow10Bits(n) + Prec + 3 - BigBits[d] ELSE 0

\* s * d / 10^n
FQuot[s \in Int, d \in Limbs, n \in Nat, k \in Nat] ==
  FMake[s, WithSticky[OverPow10[[quot |-> BigShl[d, k], sticky |-> FALSE], n]],
        -k - 1]

\* the decimal number s * ds * 10^e; past the largest float it is an
\* infinity, and below half the least one a zero
MaxDecExp == 310

MinDecExp == -330

FDecimal[s \in Int, ds \in CharSeqs, e \in Int] ==
  IF ds = <<>> THEN Zero(s)
  ELSE IF Len(ds) + e > MaxDecExp THEN Inf(s)
  ELSE IF Len(ds) + e < MinDecExp THEN Zero(s)
  ELSE IF e >= 0 THEN FMake[s, TimesPow10[DecOf[ds, 1, Len(ds)], e], 0]
  ELSE FQuot[s, DecOf[ds, 1, Len(ds)], -e, QuotShift(DecOf[ds, 1, Len(ds)], -e)]

\* the word without its sign
Unsigned[s \in Int, b \in CharSeqs] ==
  IF Lowered(b) \in {<<"i", "n", "f">>,
                     <<"i", "n", "f", "i", "n", "i", "t", "y">>}
  THEN Inf(s)
  ELSE IF Lowered(b) = <<"n", "a", "n">> THEN NaN
  ELSE IF ~IsNumeral(b) THEN ValueError
  ELSE FDecimal[s, Significant(Mantissa(b)), ExpOf(b) - FracLen(b)]

Signed[b \in CharSeqs] ==
  IF b = <<>> THEN ValueError
  ELSE IF b[1] = "-" THEN Unsigned[-1, Tail(b)]
  ELSE IF b[1] = "+" THEN Unsigned[1, Tail(b)]
  ELSE Unsigned[1, b]

Plain[cs \in CharSeqs] ==
  IF UnderscoresOk(cs) THEN Signed[SelectSeq(cs, IsNoUnderscore)]
  ELSE ValueError

IsSpace(c) == c \in {" ", "\t", "\n", "\r", "\f"}

\* the characters of a word without the white space around them
Stripped(cs) ==
  IF \A i \in 1..Len(cs) : IsSpace(cs[i]) THEN <<>>
  ELSE SubSeq(cs, SetMin({i \in 1..Len(cs) : ~IsSpace(cs[i])}),
                  SetMax({i \in 1..Len(cs) : ~IsSpace(cs[i])}))

FloatOf[w \in STRING] == Plain[Stripped(Chars(w))]

\* float(w); at names the object made, which tells one nan from another
Named[x \in FloatSet \cup {ValueError}, at \in Nat \X Nat] ==
  IF IsNaN(x) THEN [nan |-> at] ELSE x

float(w, at) == Named[FloatOf[w], at]

IsNumeric(w) == ~IsRaised(FloatOf[w])

\* tuple(map(float, words)) raises ValueError at the first word float() rejects
AllNumeric(words) == \A i \in 1..Len(words) : IsNumeric(words[i])

\* the floats of the words of the given line
Floats(words, line) == [i \in 1..Len(words) |-> float(words[i], <<line, i>>)]

\* _parse_line: (key_val[0], key_val[1:]); a blank line has no key_val[0]
ParseLine(l) == [key |-> l[1], value |-> SubSeq(l, 2, Len(l))]

\* Optional values: None, or the value wrapped
None == <<>>

Some(v) == <<v>>


(***************************************************************************)
(* Facet                                                                   *)
(***************************************************************************)
\* what an expression gives: a float, or the error it raises
Values == FloatSet \cup {OverflowError}

Raises(vs) == \E i \in DOMAIN vs : IsRaised(vs[i])

\* (p2.x - p1.x) ** 2, (p2.y - p1.y) ** 2, (p2.z - p1.z) ** 2
Squares(p1, p2) == [k \in 1..3 |-> Square[FSub[p2[k], p1[k]]]]

\* (x + y + z) ** .5 for the three squares, the error raised if any
SumRoot[sq \in Seq(Values)] ==
  IF Raises(sq) THEN OverflowError ELSE PowHalf[FAdd[FAdd[sq[1], sq[2]], sq[3]]]

_distance(p1, p2) == SumRoot[Squares(p1, p2)]

\* the Heron radicand s * (s - ab) * (s - bc) * (s - ca)
Radicand[ab \in FloatSet, bc \in FloatSet, ca \in FloatSet, s \in FloatSet] ==
  FMul[FMul[FMul[s, FSub[s, ab]], FSub[s, bc]], FSub[s, ca]]

SemiPerimeter[ab \in FloatSet, bc \in FloatSet, ca \in FloatSet] ==
  FMul[Half, FAdd[FAdd[ab, bc], ca]]

\* d is ab, bc, ca
Heron[d \in Seq(Values)] ==
  IF Raises(d) THEN OverflowError
  ELSE PowHalf[Radicand[d[1], d[2], d[3], SemiPerimeter[d[1], d[2], d[3]]]]

\* _distance(a, b), _distance(b, c), _distance(c, a)
Sides(a, b, c) == [k \in 1..3 |-> _distance(<<a, b, c>>[k], <<b, c, a>>[k])]

find_area(a, b, c) == Heron[Sides(a, b, c)]

\* Facet.__init__ reads v[0], v[1], v[2] in turn: IndexError when the list is
\* too short, TypeError when Point(*v[i]) does not get three coordinates
RECURSIVE FacetError(_, _)
FacetError(v, i) ==
  IF i > 3 THEN "none"
  ELSE IF i > Len(v) THEN "IndexError"
  ELSE IF Len(v[i]) # 3 THEN "TypeError"
  ELSE FacetError(v, i + 1)

get_vertices(f) == <<f.A, f.B, f.C>>

get_normal(f) == f.N

(***************************************************************************)
(* Surface.  S is the object's attributes; vertices is the defaultdict, a  *)
(* function from the keys it holds to lists of facets.                     *)
(***************************************************************************)
NewSurface ==
  [name |-> None, area |-> FZero, facets |-> <<>>,
   vertices |-> [k \in {} |-> <<>>],
   min_x |-> FZero, max_x |-> FZero, min_y |-> FZero, max_y |-> FZero,
   min_z |-> FZero, max_z |-> FZero]

set_name(S, name) == [S EXCEPT !.name = Some(name)]

\* a set_area that keeps the last facet's area instead of adding it
set_area_last(S, f) == [S EXCEPT !.area = f.area]

set_area(S, f) == [S EXCEPT !.area = NumAdd(@, f.area)]

\* min(a, b) and max(a, b) of Python: a unless b is smaller (larger)
FMin(a, b) == IF FLt(b, a) THEN b ELSE a

FMax(a, b) == IF FLt(a, b) THEN b ELSE a

\* the extents of S widened to the point A
Widened(S, A) ==
  [S EXCEPT !.min_x = FMin(@, A[1]), !.max_x = FMax(@, A[1]),
            !.min_y = FMin(@, A[2]), !.max_y = FMax(@, A[2]),
            !.min_z = FMin(@, A[3]), !.max_z = FMax(@, A[3])]

\* a set_min_max that widens the extents to all three vertices
set_min_max_all(S, f) ==
  Widened(Widened(Widened(S, get_vertices(f)[1]), get_vertices(f)[2]),
          get_vertices(f)[3])

set_min_max(S, f) == Widened(S, get_vertices(f)[1])

\* two keys are one key of a dict when their coordinates are the same
\* objects or equal numbers (0.0 and -0.0 are, a nan is only itself)
SameCoord(a, b) == a = b \/ FEq(a, b)

SameKey(k, v) ==
  Len(k) = Len(v) /\ \A i \in 1..Len(k) : SameCoord(k[i], v[i])

HasKey(idx, v) == \E k \in DOMAIN idx : SameKey(k, v)

\* the key the dict holds for v: the one that came first
KeyFor(idx, v) == CHOOSE k \in DOMAIN idx : SameKey(k, v)

\* self.vertices[v].append(f): the defaultdict makes the entry when absent
IndexAppend(idx, v, f) ==
  IF HasKey(idx, v) THEN [idx EXCEPT ![KeyFor(idx, v)] = Append(@, f)]
  ELSE (v :> <<f>>) @@ idx

\* for v in verts: self.vertices[v].append(f), from the i-th on
RECURSIVE IndexFacet(_, _, _, _)
IndexFacet(idx, verts, i, f) ==
  IF i > Len(verts) THEN idx
  ELSE IndexFacet(IndexAppend(idx, verts[i], f), verts, i + 1, f)

find_dims(S) ==
  <<FSub[S.max_x, S.min_x], FSub[S.max_y, S.min_y], FSub[S.max_z, S.min_z]>>

\* the eight corners of the box from the origin to d
Corners(d, O) ==
  << <<O, O, O>>, <<O, O, d[3]>>, <<O, d[2], O>>, <<O, d[2], d[3]>>,
     <<d[1], O, O>>, <<d[1], O, d[3]>>, <<d[1], d[2], O>>,
     <<d[1], d[2], d[3]>> >>

find_bounds(S) == Corners(find_dims(S), FZero)

Product(d) == FMul[FMul[d[1], d[2]], d[3]]

get_bounding_box_volume(S) == Product(find_dims(S))

get_facets(S) == S.facets

\* self.vertices[vert]: what is returned, and the dict afterwards (a key the
\* defaultdict does not hold is added with an empty list)
find_facets(S, vert) ==
  IF HasKey(S.vertices, vert) THEN S.vertices[KeyFor(S.vertices, vert)]
  ELSE <<>>

find_facets_self(S, vert) ==
  IF HasKey(S.vertices, vert) THEN S
  ELSE [S EXCEPT !.vertices = (vert :> <<>>) @@ @]

(***************************************************************************)
(* "%.6f" % x: the decimal expansion of the float's exact value, rounded   *)
(* to six places to nearest, ties to even; inf and nan by their names.     *)
(***************************************************************************)
RECURSIVE Digits(_, _)
Digits(n, width) ==
  IF width = 0 THEN "" ELSE Digits(n \div 10, width - 1) \o ToString(n % 10)

\* floor(a / 10000^k)
DivPow[a \in Limbs, k \in Nat] ==
  IF k = 0 THEN a
  ELSE IF k = 1 THEN BigDivLimb[a, 10000].quot
  ELSE DivPow[DivPow[a, k \div 2], k - (k \div 2)]

\* the decimal digits of a from 10000^hi down to 10000^lo, the leading four
\* without their zeros
DecFrom[a \in Limbs, lo \in Nat, hi \in Nat, top \in Nat] ==
  IF lo < hi
  THEN DecFrom[a, ((lo + hi) \div 2) + 1, hi, top]
         \o DecFrom[a, lo, (lo + hi) \div 2, top]
  ELSE IF lo = top THEN ToString(BigDivLimb[DivPow[a, lo], 10000].rem)
  ELSE Digits(BigDivLimb[DivPow[a, lo], 10000].rem, 4)

DecTo[a \in Limbs, top \in Nat] == DecFrom[a, 0, top, top]

\* the decimal digits of a # 0: 10000^k > 2^(13 k)
BigDec[a \in Limbs] ==
  DecTo[a, SetMax({k \in 0..(BigBits[a] \div 13) : DivPow[a, k] # <<>>})]

\* the text of sgn * (hi.quot * 10^6 + hi.rem * 10^3 + lo.rem) / 10^6
FormatParts(sgn, lo, hi) ==
  (IF sgn < 0 THEN "-" ELSE "")
  \o (IF hi.quot = <<>> THEN "0" ELSE BigDec[hi.quot])
  \o "." \o Digits(hi.rem, 3) \o Digits(lo.rem, 3)

FormatLow(sgn, lo) == FormatParts(sgn, lo, BigDivLimb[lo.quot, 1000])

\* q is |x| in millionths
FormatMicro(sgn, q) == FormatLow(sgn, BigDivLimb[q, 1000])

Micro[m \in Limbs, e \in Int] ==
  IF e >= 0 THEN BigShl[m, e] ELSE BigRoundShr[m, -e]

Format6[x \in FloatSet] ==
  IF IsNaN(x) THEN "nan"
  ELSE IF IsInf(x) THEN (IF x.sgn < 0 THEN "-inf" ELSE "inf")
  ELSE FormatMicro(x.sgn, Micro[BigMul[x.man, BigOfNat[1000000]], x.exp])

Ok(v) == [exc |-> "none", val |-> v]

\* get_area: "%.6f" % self.area; a complex area is a TypeError
get_area(S) ==
  IF IsComplex(S.area) THEN [exc |-> "TypeError", val |-> ""]
  ELSE Ok(Format6[S.area])

(***************************************************************************)
(* The input files of the model.                                           *)
(***************************************************************************)
MaxFacets == 2

MaxLines == 5

MaxBadLines == 4

Vtx(p) == <<"vertex">> \o p

FacetNormal(n) == <<"facet", "normal">> \o n

\* one facet block as the format comment of load shows it
Block(b) ==
  << FacetNormal(b[1]), <<"outer", "loop">>, Vtx(b[2]), Vtx(b[3]), Vtx(b[4]),
     <<"endloop">>, <<"endfacet">> >>

\* normal and three vertices, as the words of the file; the second is the
\* facet of the format comment
Blocks ==
  { << <<"0", "0", "1">>, <<"0", "0", "0">>, <<"1", "0", "0">>, <<"0", "1", "0">> >>,
    << <<"-0.785875", "0", "-0.618385">>, <<"0.360463", "0", "2.525">>,
       <<"0", "0", "2.98309">>, <<"0.360463", "0.2", "2.525">> >>,
    << <<"1", "0", "0">>, <<"1", "2", "0">>, <<"9", "9", "9">>, <<"-3", "-3", "-3">> >>,
    << <<"0", "1", "0">>, <<"5", "6", "3">>, <<"9", "9", "9">>, <<"-3", "-3", "-3">> >>,
    << <<"-1", "0", "0">>, <<"-1", "-2", "-3">>, <<"0.0", "0", "0">>, <<"1e0", "0", "0">> >>,
    << <<"0", "0", "1">>, <<"0", "0", "0">>, <<"-1", "-2", "-3">>, <<"5", "6", "3">> >>,
    << <<"0", "0", "1">>, <<"0", "0", "0">>, <<"0", "0", "0">>, <<"1", "0", "0">> >>,
    << <<"0", "0", "0">>, <<"1", "0", "0">>, <<"1", "0", "0">>, <<"1", "0", "0">> >>,
    << <<"0", "0", "1">>, <<"0", "0", "0">>, <<"1", "1", "0">>, <<"3", "3", "0">> >>,
    << <<"1", "-1", "0">>, <<"0", "0", "0">>, <<"3", "3", "3">>, <<"1", "1", "1">> >>,
    << <<"0", "0", "1">>, <<"0", "0", "0">>, <<"1", "1", "0">>, <<"1", "0", "0">> >> }

RECURSIVE BlockLines(_)
BlockLines(k) ==
  IF k = 0 THEN {<<>>}
  ELSE {Block(b) \o r : b \in Blocks, r \in BlockLines(k - 1)}

SolidFiles ==
  { <<<<"solid", "Moon">>>> \o body \o <<<<"endsolid", "Moon">>>> :
      body \in UNION {BlockLines(k) : k \in 0..MaxFacets} }

\* any sequence of at most n lines
LineSeqs(lines, n) == UNION {[1..k -> lines] : k \in 0..n}

\* the lines of a facet in any order and number
RawLines ==
  { FacetNormal(<<"0", "0", "1">>), Vtx(<<"0", "0", "0">>),
    Vtx(<<"1", "0", "0">>), <<"endfacet">> }

\* the lines that name the solid, or seem to
NameLines == { <<"solid", "a">>, <<"solid", "b">>, <<"endsolid", "a">> }

BadLines ==
  { <<>>, <<"vertex", "x", "0", "0">>, <<"vertex", "0", "0">>,
    <<"facet", "normal", "0", "up">>, <<"facet">>,
    Vtx(<<"0", "0", "0">>), <<"endfacet">> }

Files ==
  SolidFiles \cup LineSeqs(RawLines, MaxLines) \cup LineSeqs(NameLines, MaxLines)
             \cup LineSeqs(BadLines, MaxBadLines)

\* the points find_facets is called with
Probes == {Floats(w, 0) : w \in {<<"0", "0", "0">>, <<"9", "9", "9">>}}

\* the points of the vertex lines that stand outside a block
LoosePoints ==
  {p \in {Floats(Tail(l), 0) : l \in {v \in RawLines \cup BadLines :
                                        Len(v) = 4 /\ v[1] = "vertex"}} :
     ~Raises(p)}

\* the vertices of a block, or any three loose points
BlockPoints == {SubSeq(b, 2, 4) : b \in Blocks}

\* the triangles the model's files can make
Triangles ==
  {[k \in 1..3 |-> Floats(t[k], 0)] : t \in BlockPoints}
    \cup [1..3 -> LoosePoints]

\* find_area of each of them, worked out once
AreaOf == [t \in Triangles |-> find_area(t[1], t[2], t[3])]

TriangleArea(a, b, c) ==
  IF <<a, b, c>> \in Triangles THEN AreaOf[<<a, b, c>>]
  ELSE find_area(a, b, c)

Raised(e) == [raised |-> e]

\* the object once find_area has returned, or the error find_area raised
WithArea(f, area) == IF IsRaised(area) THEN area ELSE [f EXCEPT !.area = area]

\* a constructor that takes B and C in the other order
Facet_ACB(n, v, id) ==
  IF FacetError(v, 1) # "none" THEN Raised(FacetError(v, 1))
  ELSE WithArea([id |-> id, N |-> n, A |-> v[1], B |-> v[3], C |-> v[2],
                 area |-> None],
                TriangleArea(v[1], v[2], v[3]))

\* Facet(n, v): the object, or the error the constructor raises; it takes
\* the vertices, then works out the area.  id is the object's identity
\* (facets are compared by identity in Python)
Facet(n, v, id) ==
  IF FacetError(v, 1) # "none" THEN Raised(FacetError(v, 1))
  ELSE WithArea([id |-> id, N |-> n, A |-> v[1], B |-> v[2], C |-> v[3],
                 area |-> None],
                TriangleArea(v[1], v[2], v[3]))

\* add_facet once the Facet f is constructed
Ingest(S, verts, f) ==
  [set_min_max(set_area(S, f), f) EXCEPT
     !.facets = Append(@, f),
     !.vertices = IndexFacet(@, verts, 1, f)]

\* what a call leaves: the object, and the error raised if any
Left(S, e) == [self |-> S, exc |-> e]

\* an add_facet that indexes the pending vertices before it constructs the
\* Facet, so that a failing constructor leaves keys behind
KeysFirst(S, verts, f) ==
  IF IsRaised(f)
  THEN Left([S EXCEPT !.vertices = IndexFacet(@, verts, 1, None)], f.raised)
  ELSE Left(Ingest(S, verts, f), "none")

add_facet_keys_first(S, n, verts) ==
  KeysFirst(S, verts, Facet(n, verts, Len(S.facets) + 1))

\* the rest of add_facet, f being what the constructor gave
Added(S, verts, f) ==
  IF IsRaised(f) THEN Left(S, f.raised) ELSE Left(Ingest(S, verts, f), "none")

\* add_facet: the constructor raises before anything is changed
add_facet(S, n, verts) == Added(S, verts, Facet(n, verts, Len(S.facets) + 1))

(***************************************************************************)
(* The program: load reads fp line by line; once it has returned, the      *)
(* accessors are called in any order.                                      *)
(***************************************************************************)
VARIABLES fp, pos, pc, err, normal, vertices, self, ret

vars == <<fp, pos, pc, err, normal, vertices, self, ret>>

NoCall == [op |-> "none", arg |-> <<>>, exc |-> "none", val |-> <<>>]

Init ==
  /\ fp \in Files
  /\ pos = 0
  /\ pc = "loading"
  /\ err = "none"
  /\ normal = None
  /\ vertices = <<>>
  /\ self = NewSurface
  /\ ret = NoCall

Reading == pc = "loading" /\ pos < Len(fp)

Line == fp[pos + 1]

Key == ParseLine(Line).key

Value == ParseLine(Line).value

\* value[1:]
Rest(s) == SubSeq(s, 2, Len(s))

Raise(e) ==
  /\ pc' = "failed"
  /\ err' = e
  /\ pos' = pos + 1
  /\ UNCHANGED <<fp, normal, vertices, self, ret>>

\* key_val[0] of a blank line
ReadBlank ==
  /\ Reading
  /\ Line = <<>>
  /\ Raise("IndexError")

ReadSolid ==
  /\ Reading
  /\ Line # <<>>
  /\ Key = "solid"
  /\ self' = set_name(self, Value)
  /\ pos' = pos + 1
  /\ UNCHANGED <<fp, pc, err, normal, vertices, ret>>

\* normal = tuple(map(float, value[1:])), fs being what float gave
SetNormal(fs) ==
  IF Raises(fs) THEN Raise("ValueError")
  ELSE /\ normal' = Some(fs)
       /\ pos' = pos + 1
       /\ UNCHANGED <<fp, pc, err, vertices, self, ret>>

ReadFacet ==
  /\ Reading
  /\ Line # <<>>
  /\ Key = "facet"
  /\ SetNormal(Floats(Rest(Value), pos + 1))

\* vertices.append(tuple(map(float, value)))
AppendVertex(fs) ==
  IF Raises(fs) THEN Raise("ValueError")
  ELSE /\ vertices' = Append(vertices, fs)
       /\ pos' = pos + 1
       /\ UNCHANGED <<fp, pc, err, normal, self, ret>>

ReadVertex ==
  /\ Reading
  /\ Line # <<>>
  /\ Key = "vertex"
  /\ AppendVertex(Floats(Value, pos + 1))

\* self.add_facet(normal, vertices), then normal = None and vertices = []
\* unless it raised
AfterAddFacet(r) ==
  /\ self' = r.self
  /\ pos' = pos + 1
  /\ IF r.exc = "none"
     THEN /\ normal' = None
          /\ vertices' = <<>>
          /\ UNCHANGED <<pc, err>>
     ELSE /\ pc' = "failed"
          /\ err' = r.exc
          /\ UNCHANGED <<normal, vertices>>
  /\ UNCHANGED <<fp, ret>>

ReadEndfacet ==
  /\ Reading
  /\ Line # <<>>
  /\ Key = "endfacet"
  /\ AfterAddFacet(add_facet(self, normal, vertices))

ReadOther ==
  /\ Reading
  /\ Line # <<>>
  /\ Key \notin {"solid", "facet", "vertex", "endfacet"}
  /\ pos' = pos + 1
  /\ UNCHANGED <<fp, pc, err, normal, vertices, self, ret>>

\* the end of the file: load returns
Close ==
  /\ pc = "loading"
  /\ pos = Len(fp)
  /\ pc' = "loaded"
  /\ UNCHANGED <<fp, pos, err, normal, vertices, self, ret>>

Return(op, arg, res) ==
  /\ pc = "loaded"
  /\ ret' = [op |-> op, arg |-> arg, exc |-> res.exc, val |-> res.val]
  /\ UNCHANGED <<fp, pos, pc, err, normal, vertices>>

CallGetArea ==
  /\ Return("get_area", <<>>, get_area(self))
  /\ self' = self

CallFindDims ==
  /\ Return("find_dims", <<>>, Ok(find_dims(self)))
  /\ self' = self

CallFindBounds ==
  /\ Return("find_bounds", <<>>, Ok(find_bounds(self)))
  /\ self' = self

CallGetBoundingBoxVolume ==
  /\ Return("get_bounding_box_volume", <<>>,
            Ok(get_bounding_box_volume(self)))
  /\ self' = self

CallGetFacets ==
  /\ Return("get_facets", <<>>, Ok(get_facets(self)))
  /\ self' = self

CallFindFacets ==
  \E vert \in Probes :
    /\ Return("find_facets", vert, Ok(find_facets(self, vert)))
    /\ self' = find_facets_self(self, vert)

Next ==
  \/ ReadBlank
  \/ ReadSolid
  \/ ReadFacet
  \/ ReadVertex
  \/ ReadEndfacet
  \/ ReadOther
  \/ Close
  \/ CallGetArea
  \/ CallFindDims
  \/ CallFindBounds
  \/ CallGetBoundingBoxVolume
  \/ CallGetFacets
  \/ CallFindFacets

Spec == Init /\ [][Next]_vars

(***************************************************************************)
(* What the properties speak of, read from the file itself and from the    *)
(* facet sequence, independently of how load and add_facet get there.      *)
(***************************************************************************)
KeyOf(l) == IF l = <<>> THEN "" ELSE l[1]

IsSolidLine(l) == KeyOf(l) = "solid"

IsVertexLine(l) == KeyOf(l) = "vertex"

IsBlockLine(l) == KeyOf(l) \in {"facet", "vertex", "endfacet"}

\* the lines read so far
Processed == SubSeq(fp, 1, pos)

\* the facet, vertex and endfacet lines of a file, in order
BlockLinesOf(file) == SelectSeq(file, IsBlockLine)

IsTriple(words) == Len(words) = 3 /\ AllNumeric(words)

\* s[k..k+4] is facet normal nx ny nz, three vertex x y z, endfacet
IsFacetBlock(s, k) ==
  /\ KeyOf(s[k]) = "facet"
  /\ Len(s[k]) = 5
  /\ s[k][2] = "normal"
  /\ IsTriple(SubSeq(s[k], 3, 5))
  /\ \A j \in 1..3 : IsVertexLine(s[k + j]) /\ IsTriple(Tail(s[k + j]))
  /\ s[k + 4] = <<"endfacet">>

WellFormed(file) ==
  /\ \A i \in 1..Len(file) : file[i] # <<>>
  /\ Len(BlockLinesOf(file)) % 5 = 0
  /\ \A b \in 1..(Len(BlockLinesOf(file)) \div 5) :
       IsFacetBlock(BlockLinesOf(file), 5 * b - 4)

\* the b-th block of s holds what the facet f holds (the words of the
\* model's files are numbers, which are the same whatever line they are on)
BlockIs(s, b, f) ==
  /\ get_normal(f) = Some(Floats(SubSeq(s[5 * b - 4], 3, 5), 0))
  /\ get_vertices(f) = << Floats(Tail(s[5 * b - 3]), 0), Floats(Tail(s[5 * b - 2]), 0),
                          Floats(Tail(s[5 * b - 1]), 0) >>

\* C1: when load has returned from a file of N well-formed facet blocks,
\* get_facets has exactly N entries and the i-th holds the normal and the
\* vertices A, B, C, in line order, of the i-th block.
C1_Thm ==
  (pc = "loaded" /\ WellFormed(fp)) =>
    /\ Len(get_facets(self)) = Len(BlockLinesOf(fp)) \div 5
    /\ \A i \in 1..Len(get_facets(self)) :
         BlockIs(BlockLinesOf(fp), i, get_facets(self)[i])

\* two different blocks have been loaded, the first with B and C apart
C1_Wit ==
  /\ pc = "loaded"
  /\ WellFormed(fp)
  /\ Len(get_facets(self)) = 2
  /\ get_vertices(get_facets(self)[1]) # get_vertices(get_facets(self)[2])
  /\ get_facets(self)[1].B # get_facets(self)[1].C

Holds(f, v) == v \in {f.A, f.B, f.C}

\* the points that were vertices or keys, and the points asked for
KnownPoints ==
  Probes \cup DOMAIN self.vertices
         \cup UNION {{self.facets[i].A, self.facets[i].B, self.facets[i].C} :
                       i \in 1..Len(self.facets)}

\* C2: after load, find_facets(v) is the facets that have v among A, B, C,
\* each once and in the order they were parsed; empty for a point never seen.
C2_Cex ==
  pc = "loaded" =>
    \A v \in KnownPoints :
      find_facets(self, v) = SelectSeq(self.facets, LAMBDA f : Holds(f, v))

C3_File ==
  << <<"solid", "Moon">> >>
    \o Block(<< <<"0", "0", "1">>, <<"0", "0", "0">>, <<"1", "0", "0">>,
                <<"0", "1", "0">> >>)
    \o << <<"endsolid", "Moon">> >>

\* C3: the file of the one facet (0,0,0), (1,0,0), (0,1,0) with normal
\* (0,0,1) gives one facet, find_dims (1,1,0) and a volume of 0.
C3_Cex ==
  (pc = "loaded" /\ fp = C3_File) =>
    /\ Len(get_facets(self)) = 1
    /\ find_dims(self) = <<FOfInt(1), FOfInt(1), FOfInt(0)>>
    /\ get_bounding_box_volume(self) = FOfInt(0)

\* the k-th coordinates of the first vertices of the facets
FirstCoords(k) == {self.facets[i].A[k] : i \in 1..Len(self.facets)}

LeastOf(xs) == CHOOSE x \in xs : \A y \in xs : FLe(x, y)

GreatestOf(xs) == CHOOSE x \in xs : \A y \in xs : FLe(y, x)

\* the first vertices span lo..hi in the k-th coordinate
Spans(k, lo, hi) ==
  /\ FirstCoords(k) # {}
  /\ LeastOf(FirstCoords(k)) = FOfInt(lo)
  /\ GreatestOf(FirstCoords(k)) = FOfInt(hi)

\* C4: each extent is the least (greatest) of the seed 0 and that coordinate
\* of the first vertex A of every facet, so min <= 0 <= max, no component of
\* find_dims is negative and the volume is the product of the three; first
\* vertices spanning [1,5], [2,6], [0,3] give (5,6,3) and 90.
C4_Thm ==
  /\ self.min_x = LeastOf(FirstCoords(1) \cup {FZero})
  /\ self.max_x = GreatestOf(FirstCoords(1) \cup {FZero})
  /\ self.min_y = LeastOf(FirstCoords(2) \cup {FZero})
  /\ self.max_y = GreatestOf(FirstCoords(2) \cup {FZero})
  /\ self.min_z = LeastOf(FirstCoords(3) \cup {FZero})
  /\ self.max_z = GreatestOf(FirstCoords(3) \cup {FZero})
  /\ \A m \in {self.min_x, self.min_y, self.min_z} : FLe(m, FZero)
  /\ \A m \in {self.max_x, self.max_y, self.max_z} : FLe(FZero, m)
  /\ \A k \in 1..3 : FLe(FZero, find_dims(self)[k])
  /\ get_bounding_box_volume(self)
       = FMul[FMul[find_dims(self)[1], find_dims(self)[2]], find_dims(self)[3]]
  /\ (Spans(1, 1, 5) /\ Spans(2, 2, 6) /\ Spans(3, 0, 3)) =>
       /\ find_dims(self) = <<FOfInt(5), FOfInt(6), FOfInt(3)>>
       /\ get_bounding_box_volume(self) = FOfInt(90)

\* the spanning facets are loaded, their B and C well outside the box
C4_Wit ==
  /\ pc = "loaded"
  /\ Spans(1, 1, 5) /\ Spans(2, 2, 6) /\ Spans(3, 0, 3)
  /\ \A i \in 1..Len(self.facets) :
       /\ FLt(self.max_x, self.facets[i].B[1])
       /\ FLt(self.facets[i].C[1], self.min_x)
  /\ get_bounding_box_volume(self) = FOfInt(90)

\* C5: once load has returned, no accessor call changes the name, the area,
\* the extents, the facet sequence or the vertex index and its keys.
C5_Cex == [][pc = "loaded" => self' = self]_vars

RECURSIVE SumOfAreas(_, _)
\* 0 + area of the first + ... + area of the n-th facet of fs
SumOfAreas(fs, n) ==
  IF n = 0 THEN FZero ELSE NumAdd(SumOfAreas(fs, n - 1), fs[n].area)

\* a step that changes the facets or the area appends one facet and adds
\* its area, which is the area of its three vertices
AreaStep ==
  (self'.area # self.area \/ self'.facets # self.facets) =>
    /\ Len(self'.facets) = Len(self.facets) + 1
    /\ SubSeq(self'.facets, 1, Len(self.facets)) = self.facets
    /\ self'.area = NumAdd(self.area, self'.facets[Len(self'.facets)].area)
    /\ pc = "loading" /\ KeyOf(fp[pos + 1]) = "endfacet"

\* C6: during load and after it the running area is the sum of the areas of
\* the facets in the facet sequence, 0 when there is none; add_facet adds
\* the new facet's area and nothing else changes the total.
C6_Thm ==
  /\ [](self.area = SumOfAreas(self.facets, Len(self.facets)))
  /\ [][AreaStep]_vars

\* two facets of different positive areas, the total being neither
C6_Wit ==
  /\ Len(self.facets) = 2
  /\ ~IsComplex(self.facets[1].area) /\ FLt(FZero, self.facets[1].area)
  /\ ~IsComplex(self.facets[2].area) /\ FLt(FZero, self.facets[2].area)
  /\ self.facets[1].area # self.facets[2].area
  /\ self.area = NumAdd(self.facets[1].area, self.facets[2].area)
  /\ self.area \notin {self.facets[1].area, self.facets[2].area}

Minus(p, q) == <<FSub[p[1], q[1]], FSub[p[2], q[2]], FSub[p[3], q[3]]>>

CrossProduct(u, v) ==
  << FSub[FMul[u[2], v[3]], FMul[u[3], v[2]]],
     FSub[FMul[u[3], v[1]], FMul[u[1], v[3]]],
     FSub[FMul[u[1], v[2]], FMul[u[2], v[1]]] >>

\* a, b and c lie on one line (the collinear points of the model have small
\* integers for coordinates, for which the products and differences are
\* exact)
Collinear(a, b, c) ==
  \A k \in 1..3 : FEq(CrossProduct(Minus(b, a), Minus(c, a))[k], FZero)

\* C7: the area of a facet whose three vertices are collinear is the real
\* number 0, never a complex value or anything else.
C7_Cex ==
  \A i \in 1..Len(self.facets) :
    Collinear(self.facets[i].A, self.facets[i].B, self.facets[i].C) =>
      /\ ~IsComplex(self.facets[i].area)
      /\ FEq(self.facets[i].area, FZero)

\* the last of the first n lines that is a facet or endfacet line, or 0
LastReset(n) ==
  SetMax({0} \cup {i \in 1..n : KeyOf(fp[i]) \in {"facet", "endfacet"}})

VertexLinesAfter(lo, hi) == SelectSeq(SubSeq(fp, lo + 1, hi), IsVertexLine)

\* the vertices of the vertex lines since the last facet or endfacet line
PendingSince(n) ==
  [i \in 1..Len(VertexLinesAfter(LastReset(n), n)) |->
     Floats(Tail(VertexLinesAfter(LastReset(n), n)[i]), 0)]

\* C8: a facet line empties the pending vertex list, so while load runs the
\* pending vertices are those of the vertex lines after the latest facet
\* (or endfacet) line, and a Facet is built of nothing older.
C8_Cex == pc = "loading" => vertices = PendingSince(pos)

\* C9: the name is None until the first solid line, is what that line says
\* from then on, and no later line changes it.
C9_Cex ==
  self.name = IF SelectSeq(Processed, IsSolidLine) = <<>> THEN None
              ELSE Some(Tail(SelectSeq(Processed, IsSolidLine)[1]))

\* an endfacet line is next and fewer than three vertices are pending
ShortEndfacet ==
  /\ pc = "loading"
  /\ pos < Len(fp)
  /\ fp[pos + 1] = <<"endfacet">>
  /\ Len(vertices) < 3

\* C10: an endfacet line with fewer than three vertices pending ends load
\* in failure at that line, with the area, the extents, the facets and the
\* vertex index as they were; after a failure no line is read.
C10_Thm ==
  [][ /\ ShortEndfacet => (pc' = "failed" /\ pos' = pos + 1 /\ self' = self)
      /\ pc = "failed" => UNCHANGED vars ]_vars

\* load has failed at an endfacet line that follows a whole facet
C10_Wit ==
  /\ pc = "failed"
  /\ err = "IndexError"
  /\ fp[pos] = <<"endfacet">>
  /\ Len(vertices) < 3
  /\ Len(self.facets) >= 1
  /\ self.area = self.facets[1].area
  /\ DOMAIN self.vertices = {self.facets[1].A, self.facets[1].B, self.facets[1].C}

=============================================================================
